---- MODULE Spec2Model ----
(***************************************************************************)
(* State-machine model of the step-wise ES5 interpreter                    *)
(* (johndaniels/es-interpreter, class Interpreter).                        *)
(*                                                                         *)
(* The interpreter is modelled as a record `I` (state stack, heap of       *)
(* interpreted objects, scope table, pause latch, accessor flags) and      *)
(* every method of the class as an operator from such a record to a        *)
(* result record  [I, ret, thrown, msg] :                                  *)
(*    thrown = "none"  the method returned `ret`                           *)
(*    thrown = "step"  the method threw STEP_ERROR after unwinding an      *)
(*                     interpreted exception                               *)
(*    thrown = "host"  the method threw a real host error `msg`            *)
(* The host-facing operations (step, run, the resume callback of an async  *)
(* function, getProperty/setProperty called by the host) are the actions.  *)
(***************************************************************************)
EXTENDS Integers, Sequences, FiniteSets, TLC

(***************************************************************************)
(* Bounds of the model (not program constants).                            *)
(***************************************************************************)
\* Largest number of micro-steps one step() call coalesces before the
\* wall-clock budget POLYFILL_TIMEOUT is taken to have run out.
MaxMicroSteps == 3
\* Largest number of step() calls one run() call is followed through.
MaxRunSteps == 400
\* Largest number of getProperty/setProperty calls the host makes directly.
MaxHostCalls == 2
\* Largest length of the flat native arrays handed to nativeToPseudo.
MaxLength == 2

(***************************************************************************)
(* Completion types.                                                       *)
(***************************************************************************)
NORMAL == 0
BREAK == 1
CONTINUE == 2
RETURN == 3
THROW == 4

(***************************************************************************)
(* Values.  A value is a record [t, v, s, bt, bs]: t is the host           *)
(* `typeof`-like tag, v the number or heap index, s the string.  Objects   *)
(* are references (indices) into the heap `objs`.  A reference produced in *)
(* `components` mode (the host array [base, name]) keeps the base in       *)
(* (bt, v, bs) and the name in s.                                          *)
(***************************************************************************)
Val(t, v, s) == [t |-> t, v |-> v, s |-> s, bt |-> "", bs |-> ""]
Undef == Val("undefined", 0, "")
Null == Val("null", 0, "")
Bool(b) == Val("boolean", IF b THEN 1 ELSE 0, "")
Num(n) == Val("number", n, "")
NaN == Val("NaN", 0, "")
Str(s) == Val("string", 0, s)
Obj(i) == Val("object", i, "")
\* The marker SCOPE_REFERENCE and the marker VALUE_IN_DESCRIPTOR.
SCOPE_REFERENCE == Val("SCOPE_REFERENCE", 0, "")
VALUE_IN_DESCRIPTOR == Val("VALUE_IN_DESCRIPTOR", 0, "")
\* Native (host) values.  The primitives are the interpreter's; a native
\* array has a length and elements at some of the indices below it; a
\* native object has keys, in creation order.  NoNative: no value.
NoNative == [t |-> "none"]
NativeArrayOf(items) ==
  [t |-> "Array", length |-> Len(items),
   elems |-> [i \in 0..(Len(items) - 1) |-> items[i + 1]]]
NativeObjectOf(order, props) == [t |-> "Object", order |-> order, props |-> props]
Ref(base, name) == [t |-> "reference", v |-> base.v, s |-> name, bt |-> base.t, bs |-> base.s]
RefBase(r) == Val(r.bt, r.v, r.bs)
RefName(r) == r.s

IsObj(x) == x.t = "object"
IsRef(x) == x.t = "reference"
IsNullish(x) == x.t = "undefined" \/ x.t = "null"

\* Host ToBoolean.
Truthy(x) ==
  CASE x.t = "undefined" -> FALSE
    [] x.t = "null" -> FALSE
    [] x.t = "NaN" -> FALSE
    [] x.t = "boolean" -> x.v = 1
    [] x.t = "number" -> x.v # 0
    [] x.t = "string" -> x.s # ""
    [] OTHER -> TRUE

\* Host ToNumber on the values the model uses.
ToNumber(x) ==
  CASE x.t = "number" -> x
    [] x.t = "boolean" -> Num(x.v)
    [] x.t = "null" -> Num(0)
    [] OTHER -> NaN

\* Host String(name) for property names: decimal digits of small numbers.
IndexNames == <<"0", "1", "2", "3", "4", "5", "6", "7">>
ToName(x) ==
  CASE x.t = "string" -> x.s
    [] x.t = "number" /\ x.v >= 0 /\ x.v < Len(IndexNames) -> IndexNames[x.v + 1]
    [] x.t = "undefined" -> "undefined"
    [] x.t = "null" -> "null"
    [] x.t = "boolean" -> IF x.v = 1 THEN "true" ELSE "false"
    [] OTHER -> "[object]"

\* legalArrayIndex: the number a name denotes, -1 standing for NaN.
legalArrayIndex(name) ==
  IF \E i \in 1..Len(IndexNames) : IndexNames[i] = name
    THEN (CHOOSE i \in 1..Len(IndexNames) : IndexNames[i] = name) - 1
    ELSE -1

\* legalArrayLength: the length a value denotes, -1 standing for NaN.
legalArrayLength(x) ==
  CASE x.t = "number" /\ x.v >= 0 -> x.v
    [] x.t = "boolean" -> x.v
    [] x.t = "null" -> 0
    [] OTHER -> -1

(***************************************************************************)
(* Calls.  this_m(I, ...) is the call this.m(...) on interpreter I (m a     *)
(* method, or a part of one); m is defined below under its own name and    *)
(* Invoke selects the definition that a call names.                        *)
(***************************************************************************)
RECURSIVE Invoke(_, _)
this_setProperty(I, obj, name, value, optd) == Invoke("setProperty", <<I, obj, name, value, optd>>)
this_getProperty(I, obj, name) == Invoke("getProperty", <<I, obj, name>>)
this_hasProperty(I, obj, name) == Invoke("hasProperty", <<I, obj, name>>)
this_throwException(I, errorClass, opt_message) == Invoke("throwException", <<I, errorClass, opt_message>>)
this_unwind(I, type, value, label) == Invoke("unwind", <<I, type, value, label>>)
this_createObjectProto(I, proto) == Invoke("createObjectProto", <<I, proto>>)
this_createObject(I, constructor) == Invoke("createObject", <<I, constructor>>)
this_createFunctionBase_(I, argumentLength, isConstructor) == Invoke("createFunctionBase_", <<I, argumentLength, isConstructor>>)
this_createFunction(I, node, scope, opt_name) == Invoke("createFunction", <<I, node, scope, opt_name>>)
this_createNativeFunction(I, nativeFunc, argumentLength, isConstructor) == Invoke("createNativeFunction", <<I, nativeFunc, argumentLength, isConstructor>>)
this_createAsyncFunction(I, asyncFunc, argumentLength) == Invoke("createAsyncFunction", <<I, asyncFunc, argumentLength>>)
this_createArray(I) == Invoke("createArray", <<I>>)
this_createScope(I, node, parentScope) == Invoke("createScope", <<I, node, parentScope>>)
this_createSpecialScope(I, parentScope, opt_object) == Invoke("createSpecialScope", <<I, parentScope, opt_object>>)
this_populateScope_(I, node, scope) == Invoke("populateScope_", <<I, node, scope>>)
this_boxThis_(I, value) == Invoke("boxThis_", <<I, value>>)
this_getValueFromScope(I, name) == Invoke("getValueFromScope", <<I, name>>)
this_setValueToScope(I, name, value) == Invoke("setValueToScope", <<I, name, value>>)
this_getValue(I, ref) == Invoke("getValue", <<I, ref>>)
this_setValue(I, ref, value) == Invoke("setValue", <<I, ref, value>>)
this_createGetter_(I, func, left) == Invoke("createGetter_", <<I, func, left>>)
this_createSetter_(I, func, left, value) == Invoke("createSetter_", <<I, func, left, value>>)
this_step(I, budget) == Invoke("step", <<I, budget>>)
this_run(I, budget) == Invoke("run", <<I, budget>>)
this_initGlobal(I) == Invoke("initGlobal", <<I>>)
this_HostDefineProperty(o, name, d) == Invoke("HostDefineProperty", <<o, name, d>>)
this_Unhandled(I, value) == Invoke("Unhandled", <<I, value>>)
this_unwindLoop(I, type, value, label) == Invoke("unwindLoop", <<I, type, value, label>>)
this_DeleteFrom(o, n) == Invoke("DeleteFrom", <<o, n>>)
this_SetPropertyArray(I, obj, name, value, optd) == Invoke("SetPropertyArray", <<I, obj, name, value, optd>>)
this_SetPropertyDefine(I, obj, name, value, d) == Invoke("SetPropertyDefine", <<I, obj, name, value, d>>)
this_SetPropertyAssign(I, obj, name, value, strict) == Invoke("SetPropertyAssign", <<I, obj, name, value, strict>>)
this_SetAll(I, ops) == Invoke("SetAll", <<I, ops>>)
this_ApplyDecls(I, decls, scope) == Invoke("ApplyDecls", <<I, decls, scope>>)
this_stepProgram(I) == Invoke("stepProgram", <<I>>)
this_stepConditionalExpression(I) == Invoke("stepConditionalExpression", <<I>>)
this_stepIdentifier(I) == Invoke("stepIdentifier", <<I>>)
this_stepVariableDeclaration(I) == Invoke("stepVariableDeclaration", <<I>>)
this_stepWithStatement(I) == Invoke("stepWithStatement", <<I>>)
this_stepBinaryExpression(I) == Invoke("stepBinaryExpression", <<I>>)
this_stepLogicalExpression(I) == Invoke("stepLogicalExpression", <<I>>)
this_stepMemberExpression(I) == Invoke("stepMemberExpression", <<I>>)
this_stepAssignmentExpression(I) == Invoke("stepAssignmentExpression", <<I>>)
this_stepUpdateExpression(I) == Invoke("stepUpdateExpression", <<I>>)
this_stepArrayExpression(I) == Invoke("stepArrayExpression", <<I>>)
this_stepObjectExpression(I) == Invoke("stepObjectExpression", <<I>>)
this_NativeObject(I, funcThis, args) == Invoke("NativeObject", <<I, funcThis, args>>)
this_NativeDefineProperty(I, funcThis, args) == Invoke("NativeDefineProperty", <<I, funcThis, args>>)
this_AssignElements(o, args, n) == Invoke("AssignElements", <<o, args, n>>)
this_NativeArray(I, funcThis, args) == Invoke("NativeArray", <<I, funcThis, args>>)
this_NativeError(I, constructor, funcThis, args) == Invoke("NativeError", <<I, constructor, funcThis, args>>)
this_CallNative(I, func, funcThis, args) == Invoke("CallNative", <<I, func, funcThis, args>>)
this_CallInterpreted(I, func) == Invoke("CallInterpreted", <<I, func>>)
this_CallNativeBranch(I, func) == Invoke("CallNativeBranch", <<I, func>>)
this_CallAsyncBranch(I, func) == Invoke("CallAsyncBranch", <<I, func>>)
this_CallDetermine(I) == Invoke("CallDetermine", <<I>>)
this_CallArguments(I) == Invoke("CallArguments", <<I>>)
this_CallExecute(I) == Invoke("CallExecute", <<I>>)
this_stepCallExpression(I) == Invoke("stepCallExpression", <<I>>)
this_stepBody(I, budget, pre) == Invoke("stepBody", <<I, budget, pre>>)
this_runOnce(R, budget) == Invoke("runOnce", <<R, budget>>)
this_runLoop(R, budget, n) == Invoke("runLoop", <<R, budget, n>>)
this_createErrorSubclass(I, name) == Invoke("createErrorSubclass", <<I, name>>)
this_InitStatement(I, s) == Invoke("InitStatement", <<I, s>>)
this_stepThrowStatement(I) == Invoke("stepThrowStatement", <<I>>)
this_stepTryStatement(I) == Invoke("stepTryStatement", <<I>>)
this_stepCatchClause(I) == Invoke("stepCatchClause", <<I>>)
this_UnaryDelete(J, state, value) == Invoke("UnaryDelete", <<J, state, value>>)
this_stepUnaryExpression(I) == Invoke("stepUnaryExpression", <<I>>)
this_ForInVariable(I) == Invoke("ForInVariable", <<I>>)
this_ForInName(I) == Invoke("ForInName", <<I>>)
this_stepForInStatement(I) == Invoke("stepForInStatement", <<I>>)
this_maybeThrowRegExp(I, nativeRegExp, id) == Invoke("maybeThrowRegExp", <<I, nativeRegExp, id>>)
this_vmCall(I, nativeRegExp, id) == Invoke("vmCall", <<I, nativeRegExp, id>>)
this_CallAsync(I, func, funcThis, args) == Invoke("CallAsync", <<I, func, funcThis, args>>)
this_SwitchCases(I, state) == Invoke("SwitchCases", <<I, state>>)
this_stepDoWhileStatement(I) == Invoke("stepDoWhileStatement", <<I>>)
this_nativeToPseudo(I, nativeObj) == Invoke("nativeToPseudo", <<I, nativeObj>>)
this_ArrayToPseudo(a, nativeObj, i) == Invoke("ArrayToPseudo", <<a, nativeObj, i>>)
this_ObjectToPseudo(o, nativeObj, keys) == Invoke("ObjectToPseudo", <<o, nativeObj, keys>>)
this_pseudoToNative(I, pseudoObj, cycles) == Invoke("pseudoToNative", <<I, pseudoObj, cycles>>)
\* this.stepFunctions_[node.type](stack, state, node)
this_stepFunctions_(I) == Invoke("stepFunctions_", <<I>>)
\* new Interpreter(code, initFunc)
new_Interpreter(ast, opt_initFunc) == Invoke("constructor", <<ast, opt_initFunc>>)

(***************************************************************************)
(* Property descriptors.  A descriptor is a function from the field names  *)
(* it carries to values, so that `'value' in d` is  "value" \in DOMAIN d.  *)
(***************************************************************************)
READONLY_DESCRIPTOR ==
  [configurable |-> Bool(TRUE), enumerable |-> Bool(TRUE), writable |-> Bool(FALSE)]
NONENUMERABLE_DESCRIPTOR ==
  [configurable |-> Bool(TRUE), enumerable |-> Bool(FALSE), writable |-> Bool(TRUE)]
READONLY_NONENUMERABLE_DESCRIPTOR ==
  [configurable |-> Bool(TRUE), enumerable |-> Bool(FALSE), writable |-> Bool(FALSE)]
NONCONFIGURABLE_READONLY_NONENUMERABLE_DESCRIPTOR ==
  [configurable |-> Bool(FALSE), enumerable |-> Bool(FALSE), writable |-> Bool(FALSE)]
VARIABLE_DESCRIPTOR ==
  [configurable |-> Bool(FALSE), enumerable |-> Bool(TRUE), writable |-> Bool(TRUE)]
\* The descriptor createArray gives `length`.
ARRAY_LENGTH_DESCRIPTOR ==
  [configurable |-> Bool(FALSE), enumerable |-> Bool(FALSE), writable |-> Bool(TRUE)]

Has(d, f) == f \in DOMAIN d

(***************************************************************************)
(* Result records of the modelled methods.                                 *)
(***************************************************************************)
Ok(I, ret) == [I |-> I, ret |-> ret, thrown |-> "none", msg |-> ""]
HostError(I, msg) == [I |-> I, ret |-> Undef, thrown |-> "host", msg |-> msg]
StepError(I) == [I |-> I, ret |-> Undef, thrown |-> "step", msg |-> ""]

(***************************************************************************)
(* Interpreted objects (class InterpreterObject).  `properties` is the     *)
(* host map of slots; `attrs` holds, per key, the host property attributes *)
(* of the slot (accessor = the slot is stamped with the placeholder        *)
(* accessors); `order` is the creation order of the keys.                  *)
(***************************************************************************)
EmptyMap == <<>>
Put(f, k, x) == (k :> x) @@ f
Del(f, k) == [y \in (DOMAIN f) \ {k} |-> f[y]] @@ EmptyMap
SeqWithout(q, k) == SelectSeq(q, LAMBDA y : y # k)

InterpreterObject(proto) ==
  [proto |-> proto, class |-> "", properties |-> EmptyMap, attrs |-> EmptyMap,
   getter |-> EmptyMap, setter |-> EmptyMap, order |-> <<>>,
   preventExtensions |-> FALSE, illegalConstructor |-> FALSE, eval |-> FALSE,
   nativeFunc |-> "", asyncFunc |-> "", node |-> <<>>, parentScope |-> 0]

Attrs(c, e, w, acc, hg, hs) ==
  [configurable |-> c, enumerable |-> e, writable |-> w, accessor |-> acc,
   hasGet |-> hg, hasSet |-> hs]

\* Host strict-mode assignment  o.properties[name] = x : FALSE in `ok` when
\* the host throws (read-only slot, slot stamped with placeholder accessors).
HostAssign(o, name, x) ==
  IF name \notin DOMAIN o.properties
    THEN [ok |-> TRUE,
          o |-> [o EXCEPT !.properties = Put(@, name, x),
                          !.attrs = Put(@, name, Attrs(TRUE, TRUE, TRUE, FALSE, FALSE, FALSE)),
                          !.order = Append(@, name)]]
    ELSE IF o.attrs[name].accessor \/ ~o.attrs[name].writable
      THEN [ok |-> FALSE, o |-> o]
      ELSE [ok |-> TRUE, o |-> [o EXCEPT !.properties = Put(@, name, x)]]

\* A host delete that removes non-configurable slots too.
HostDelete_IgnoresConfigurable(o, name) ==
  IF name \notin DOMAIN o.properties THEN [ok |-> TRUE, o |-> o]
  ELSE [ok |-> TRUE,
        o |-> [o EXCEPT !.properties = Del(@, name), !.attrs = Del(@, name),
                        !.order = SeqWithout(@, name)]]

\* Host strict-mode  delete o.properties[name] : FALSE in `ok` when the host
\* throws (non-configurable slot).
HostDelete(o, name) ==
  IF name \notin DOMAIN o.properties THEN [ok |-> TRUE, o |-> o]
  ELSE IF ~o.attrs[name].configurable THEN [ok |-> FALSE, o |-> o]
  ELSE [ok |-> TRUE,
        o |-> [o EXCEPT !.properties = Del(@, name), !.attrs = Del(@, name),
                        !.order = SeqWithout(@, name)]]

\* Host Object.defineProperty(o.properties, name, d)  (ES5 8.12.9 with
\* Throw = true): FALSE in `ok` when the host throws TypeError.
HostDefineProperty(o, name, d) ==
  LET isAcc == Has(d, "get") \/ Has(d, "set")
      isData == Has(d, "value") \/ Has(d, "writable")
      generic == ~isAcc /\ ~isData
      flag(f, dflt) == IF Has(d, f) THEN Truthy(d[f]) ELSE dflt
  IN
  IF isAcc /\ isData THEN [ok |-> FALSE, o |-> o]
  ELSE IF name \notin DOMAIN o.properties
    THEN [ok |-> TRUE,
          o |-> [o EXCEPT
                   !.properties = Put(@, name, IF Has(d, "value") THEN d["value"] ELSE Undef),
                   !.attrs = Put(@, name,
                       Attrs(flag("configurable", FALSE), flag("enumerable", FALSE),
                             IF isAcc THEN FALSE ELSE flag("writable", FALSE),
                             isAcc, Has(d, "get"), Has(d, "set"))),
                   !.order = Append(@, name)]]
  ELSE
    LET cur == o.attrs[name]
        curv == o.properties[name]
        convert == ~generic /\ (cur.accessor # isAcc)
        reject ==
          \/ ~cur.configurable /\ flag("configurable", FALSE)
          \/ ~cur.configurable /\ Has(d, "enumerable") /\ (Truthy(d["enumerable"]) # cur.enumerable)
          \/ convert /\ ~cur.configurable
          \/ /\ ~generic /\ ~convert /\ ~cur.accessor
             /\ ~cur.configurable /\ ~cur.writable
             /\ \/ flag("writable", FALSE)
                \/ Has(d, "value") /\ d["value"] # curv
          \/ /\ ~generic /\ ~convert /\ cur.accessor /\ ~cur.configurable
             /\ \/ Has(d, "get") /\ ~cur.hasGet
                \/ Has(d, "set") /\ ~cur.hasSet
        newAttrs ==
          Attrs(flag("configurable", cur.configurable),
                flag("enumerable", cur.enumerable),
                IF isAcc \/ (generic /\ cur.accessor) THEN FALSE
                  ELSE IF convert THEN flag("writable", FALSE)
                  ELSE flag("writable", cur.writable),
                IF generic THEN cur.accessor ELSE isAcc,
                IF generic THEN cur.hasGet
                  ELSE IF convert THEN Has(d, "get")
                  ELSE isAcc /\ (cur.hasGet \/ Has(d, "get")),
                IF generic THEN cur.hasSet
                  ELSE IF convert THEN Has(d, "set")
                  ELSE isAcc /\ (cur.hasSet \/ Has(d, "set")))
        newValue ==
          IF Has(d, "value") THEN d["value"]
          ELSE IF convert THEN Undef
          ELSE curv
    IN IF reject THEN [ok |-> FALSE, o |-> o]
       ELSE [ok |-> TRUE,
             o |-> [o EXCEPT !.properties = Put(@, name, newValue),
                             !.attrs = Put(@, name, newAttrs)]]

(***************************************************************************)
(* Well-known objects of the interpreted world: their indices in the heap  *)
(* built by initGlobal (see InitObjs).                                     *)
(***************************************************************************)
GLOBAL_OBJECT == 1
OBJECT_PROTO == 2
FUNCTION_PROTO == 3
OBJECT == 4
ARRAY == 8
ARRAY_PROTO == 9
\* this.STRING (STRING itself is a reserved word of TLA+).
STRING_CTOR == 10
STRING_PROTO == 11
REGEXP == 14
REGEXP_PROTO == 15
ERROR == 18
RANGE_ERROR == 20
REFERENCE_ERROR == 23
SYNTAX_ERROR == 26
TYPE_ERROR == 29
\* The global scope is the first entry of the scope table.
GLOBAL_SCOPE == 1

(***************************************************************************)
(* State frames (class State): the node, the scope and the scratch fields  *)
(* the step functions stash on the frame.  `id` stands for the identity of *)
(* the host State object (closures such as the async callback hold it).    *)
(***************************************************************************)
State(id, node, scope) ==
  [id |-> id, node |-> node, scope |-> scope, value |-> Undef,
   components |-> FALSE, labels |-> <<>>, done |-> FALSE, done_ |-> FALSE,
   n_ |-> 0, mode_ |-> 0, doneLeft_ |-> FALSE, doneRight_ |-> FALSE,
   leftReference_ |-> Undef, leftSide_ |-> Undef, doneGetter_ |-> FALSE,
   doneSetter_ |-> FALSE, leftValue_ |-> Undef, setterValue_ |-> Undef,
   destinationName |-> "", doneCallee_ |-> 0, func_ |-> Undef,
   funcThis_ |-> Undef, doneArgs_ |-> FALSE, arguments_ |-> <<>>,
   directEval_ |-> FALSE, isConstructor |-> FALSE, doneExec_ |-> FALSE,
   doneObject_ |-> FALSE, doneProperty_ |-> FALSE, doneBody_ |-> FALSE,
   object_ |-> Undef, array_ |-> Undef, properties_ |-> EmptyMap,
   propertyOrder_ |-> <<>>, init_ |-> FALSE, isLoop |-> FALSE,
   isSwitch |-> FALSE, cv |-> <<>>, throwValue |-> Undef,
   doneBlock_ |-> FALSE, doneHandler_ |-> FALSE, doneFinalizer_ |-> FALSE,
   \* for-in: name_ and props_ are <<>> when undefined/null, else <<x>>.
   doneInit_ |-> FALSE, doneVariable_ |-> FALSE, variable_ |-> Undef,
   visited_ |-> {}, props_ |-> <<>>, name_ |-> <<>>,
   \* do-while and switch: test_ is undefined, a boolean, 1 or 2; index_ is
   \* `state.index_ || 0`; defaultCase_ is read only once it has been set.
   test_ |-> Undef, switchValue_ |-> Undef, defaultCase_ |-> -1, index_ |-> 0,
   matched_ |-> FALSE, tested_ |-> FALSE]

\* The scope record (class Scope); parentScope = 0 stands for null.
Scope(parentScope, strict, object) ==
  [parentScope |-> parentScope, strict |-> strict, object |-> object]

Top(I) == I.stateStack[Len(I.stateStack)]
Pop(I) == [I EXCEPT !.stateStack = SubSeq(@, 1, Len(@) - 1)]
\* stack[stack.length - 1].<field> = x  on the current top frame.
SetTop(I, f, x) == [I EXCEPT !.stateStack[Len(I.stateStack)][f] = x]
\* new State(node, scope): allocates the next frame identity.
NewState(I, node, scope) == State(I.stateCounter + 1, node, scope)
Push(I, frame) ==
  [I EXCEPT !.stateStack = Append(@, frame), !.stateCounter = frame.id]

(***************************************************************************)
(* Prototype chain.                                                        *)
(***************************************************************************)
\* getPrototype: a string has the prototype of String; numbers and booleans
\* have those of Number and Boolean, which carry no property the modelled
\* programs use (0 = none).
getPrototype(I, x) ==
  IF IsObj(x) THEN I.objs[x.v].proto
  ELSE IF x.t = "string" THEN I.objs[STRING_CTOR].properties["prototype"].v
  ELSE 0

\* The first object on the prototype chain of heap object `id` (itself
\* included) that has `name` as an own key, or 0.
RECURSIVE Owner(_, _, _)
Owner(objs, id, name) ==
  IF id = 0 THEN 0
  ELSE IF name \in DOMAIN objs[id].properties THEN id
  ELSE Owner(objs, objs[id].proto, name)

RECURSIVE OnChain(_, _, _)
OnChain(objs, id, proto) ==
  IF id = 0 THEN FALSE
  ELSE IF id = proto THEN TRUE
  ELSE OnChain(objs, objs[id].proto, proto)

\* isa(child, constructor), constructor given as a heap index (0 = unset).
isa(I, child, constructor) ==
  IF IsNullish(child) \/ constructor = 0 \/ constructor > Len(I.objs) THEN FALSE
  ELSE IF "prototype" \notin DOMAIN I.objs[constructor].properties THEN FALSE
  ELSE LET proto == I.objs[constructor].properties["prototype"]
       IN IF ~IsObj(proto) THEN FALSE
          ELSE IF child = proto THEN TRUE
          ELSE OnChain(I.objs, getPrototype(I, child), proto.v)

(***************************************************************************)
(* Object creation.                                                        *)
(***************************************************************************)
\* createObjectProto(proto): proto is a value; anything whose host typeof is
\* not 'object' (null and objects are) is rejected with a host Error.
createObjectProto(I, proto) ==
  IF ~(proto.t = "null" \/ IsObj(proto))
    THEN HostError(I, "Error: Non object prototype")
    ELSE
      LET id == Len(I.objs) + 1
          raw == InterpreterObject(IF IsObj(proto) THEN proto.v ELSE 0)
          I1 == [I EXCEPT !.objs = Append(@, raw)]
          obj == IF isa(I1, Obj(id), ERROR) THEN [raw EXCEPT !.class = "Error"] ELSE raw
      IN Ok([I EXCEPT !.objs = Append(@, obj)], Obj(id))

\* createObject(constructor) = createObjectProto(constructor &&
\* constructor.properties['prototype']).
createObject(I, constructor) ==
  IF ~Truthy(constructor) THEN this_createObjectProto(I, constructor)
  ELSE IF ~IsObj(constructor)
    THEN HostError(I, "TypeError: Cannot read property 'prototype' of undefined")
  ELSE IF "prototype" \notin DOMAIN I.objs[constructor.v].properties
    THEN this_createObjectProto(I, Undef)
  ELSE this_createObjectProto(I, I.objs[constructor.v].properties["prototype"])

(***************************************************************************)
(* Completions: unwind and throwException.                                 *)
(***************************************************************************)
HostErrorNames ==
  {"EvalError", "RangeError", "ReferenceError", "SyntaxError", "TypeError", "URIError"}

\* The tail of unwind: nothing handled the completion, a real error is
\* thrown to the host ("<class>: <message>", or the stringified value).
Unhandled(I, value) ==
  IF ~isa(I, value, ERROR) THEN HostError(I, ToName(value))
  ELSE IF I.getterStep_ THEN HostError(I, "Error: Getter not supported in that context")
  ELSE
    LET no == Owner(I.objs, value.v, "name")
        mo == Owner(I.objs, value.v, "message")
    IN IF no # 0 /\ "name" \in DOMAIN I.objs[no].getter
         THEN HostError([I EXCEPT !.getterStep_ = TRUE],
                        "Error: Getter not supported in that context")
       ELSE IF mo = 0
         THEN HostError(I, "TypeError: Cannot read property 'valueOf' of undefined")
       ELSE
         LET name == IF no = 0 THEN "undefined" ELSE ToName(I.objs[no].properties["name"])
             cls == IF name \in HostErrorNames THEN name ELSE "Error"
             isGetter == "message" \in DOMAIN I.objs[mo].getter
             message == IF isGetter THEN "[object]"
                        ELSE ToName(I.objs[mo].properties["message"])
         IN HostError([I EXCEPT !.getterStep_ = isGetter], cls \o ": " \o message)

InLabels(labels, label) == \E i \in 1..Len(labels) : labels[i] = label

\* An unwind loop that pops the Program frame like any other frame.
RECURSIVE unwindLoop_PopsProgram(_, _, _, _)
unwindLoop_PopsProgram(I, type, value, label) ==
  IF Len(I.stateStack) = 0 THEN this_Unhandled(I, value)
  ELSE
    LET state == Top(I)
        ty == state.node.type
        isCall == ty \in {"CallExpression", "NewExpression"}
    IN IF ty = "TryStatement"
         THEN Ok(SetTop(I, "cv", <<[type |-> type, value |-> value, label |-> label]>>), Undef)
       ELSE IF isCall /\ type = RETURN
         THEN Ok(SetTop(I, "value", value), Undef)
       ELSE IF isCall /\ type # THROW
         THEN HostError(I, "Error: Unsynatctic break/continue not rejected by Acorn")
       ELSE IF /\ type = BREAK
               /\ IF label # "" THEN InLabels(state.labels, label)
                                ELSE state.isLoop \/ state.isSwitch
         THEN Ok(Pop(I), Undef)
       ELSE IF /\ type = CONTINUE
               /\ IF label # "" THEN InLabels(state.labels, label) ELSE state.isLoop
         THEN Ok(I, Undef)
       ELSE unwindLoop_PopsProgram(Pop(I), type, value, label)

\* The loop of unwind; label "" stands for undefined.
RECURSIVE unwindLoop(_, _, _, _)
unwindLoop(I, type, value, label) ==
  IF Len(I.stateStack) = 0 THEN this_Unhandled(I, value)
  ELSE
    LET state == Top(I)
        ty == state.node.type
        isCall == ty \in {"CallExpression", "NewExpression"}
    IN IF ty = "TryStatement"
         THEN Ok(SetTop(I, "cv", <<[type |-> type, value |-> value, label |-> label]>>), Undef)
       ELSE IF isCall /\ type = RETURN
         THEN Ok(SetTop(I, "value", value), Undef)
       ELSE IF isCall /\ type # THROW
         THEN HostError(I, "Error: Unsynatctic break/continue not rejected by Acorn")
       ELSE IF ty = "Program"
         THEN this_Unhandled(SetTop(I, "done", TRUE), value)
       ELSE IF /\ type = BREAK
               /\ IF label # "" THEN InLabels(state.labels, label)
                                ELSE state.isLoop \/ state.isSwitch
         THEN Ok(Pop(I), Undef)
       ELSE IF /\ type = CONTINUE
               /\ IF label # "" THEN InLabels(state.labels, label) ELSE state.isLoop
         THEN Ok(I, Undef)
       ELSE unwindLoop(Pop(I), type, value, label)

\* An unwind that also pops the call frame that has taken a RETURN.
unwind_PopsCall(I, type, value, label) ==
  LET r == this_unwindLoop(I, type, value, label)
  IN IF type = NORMAL
       THEN HostError(I, "TypeError: Should not unwind for NORMAL completions")
     ELSE IF /\ r.thrown = "none" /\ type = RETURN
             /\ Top(r.I).node.type \in {"CallExpression", "NewExpression"}
       THEN Ok(Pop(r.I), r.ret)
     ELSE r

unwind(I, type, value, label) ==
  IF type = NORMAL
    THEN HostError(I, "TypeError: Should not unwind for NORMAL completions")
    ELSE this_unwindLoop(I, type, value, label)

\* getScope(): the scope of the top frame.
getScope(I) == I.scopes[Top(I).scope]

\* throwException(errorClass, opt_message).  The parameter default
\* `opt_message = null` replaces an omitted message, so the branch
\* `opt_message === undefined` is never taken: an error object is always
\* created from errorClass and stamped with the message.
throwException(I, errorClass, opt_message) ==
  LET c == this_createObject(I, errorClass)
  IN IF c.thrown # "none" THEN c
     ELSE IF c.I.setterStep_
       THEN HostError(c.I, "Error: Setter not supported in that context")
     ELSE
       LET error == c.ret
           d == [value |-> opt_message] @@ NONENUMERABLE_DESCRIPTOR
           def == this_HostDefineProperty(c.I.objs[error.v], "message", d)
           I1 == [c.I EXCEPT !.objs[error.v] = def.o]
           u == this_unwind(I1, THROW, error, "")
       IN IF u.thrown # "none" THEN u ELSE StepError(u.I)

(***************************************************************************)
(* The property protocol: getProperty, hasProperty, setProperty.           *)
(* Names are host strings (callers apply String(name) = ToName).           *)
(* String-classed receivers are not modelled here: no program of the model *)
(* builds a String object.                                                 *)
(***************************************************************************)
IsMarker(x) == x.t \in {"SCOPE_REFERENCE", "VALUE_IN_DESCRIPTOR", "reference"}

getProperty(I, obj, name) ==
  IF I.getterStep_
    THEN HostError(I, "Error: Getter not supported in that context")
  ELSE IF IsNullish(obj)
    THEN this_throwException(I, Obj(TYPE_ERROR),
           Str("Cannot read property '" \o name \o "' of " \o ToName(obj)))
  ELSE IF IsMarker(obj)
    THEN HostError(I, "TypeError: Expecting native value or pseudo object")
  ELSE IF obj.t = "string" /\ name = "length"
    THEN Ok(I, Num(Len(obj.s)))
  ELSE
    LET start == IF IsObj(obj) THEN obj.v ELSE getPrototype(I, obj)
        own == Owner(I.objs, start, name)
    IN IF own = 0 THEN Ok(I, Undef)
       ELSE IF name \in DOMAIN I.objs[own].getter
         \* Flag the function as a getter needing immediate execution.
         THEN Ok([I EXCEPT !.getterStep_ = TRUE, !.getterSignals = @ + 1],
                 I.objs[own].getter[name])
       ELSE IF I.objs[own].attrs[name].accessor /\ I.objs[own].attrs[name].hasGet
         THEN HostError(I, "Error: Placeholder getter")
       ELSE Ok(I, I.objs[own].properties[name])

\* hasProperty(obj, name): TRUE/FALSE in ret as a boolean value.
hasProperty(I, obj, name) ==
  IF ~IsObj(obj)
    THEN HostError(I, "TypeError: Primitive data type has no properties")
    ELSE Ok(I, Bool(Owner(I.objs, obj.v, name) # 0))

\* The indices (as numbers) of the own keys of o that are array indices
\* not smaller than n.
IndicesFrom(o, n) ==
  {legalArrayIndex(k) : k \in {k \in DOMAIN o.properties :
                                  legalArrayIndex(k) # -1 /\ legalArrayIndex(k) >= n}}

\* for (i in obj.properties) if (value <= i) delete obj.properties[i];
\* the host enumerates index keys in ascending order and stops at the first
\* slot it cannot delete.
RECURSIVE DeleteFrom(_, _)
DeleteFrom(o, n) ==
  LET todo == IndicesFrom(o, n)
  IN IF todo = {} THEN [ok |-> TRUE, o |-> o]
     ELSE LET i == CHOOSE i \in todo : \A j \in todo : i <= j
              d == HostDelete(o, IndexNames[i + 1])
          IN IF ~d.ok THEN d ELSE DeleteFrom(d.o, i + 1)

\* The Array branch of setProperty.  Result: thrown/ret as usual, `stop`
\* TRUE when setProperty returns from inside the branch, `value` the value
\* the rest of setProperty works with.
SetPropertyArray(I, obj, name, value, optd) ==
  LET o == I.objs[obj.v]
      len == o.properties["length"]
      cont(J, x) == [r |-> Ok(J, Undef), stop |-> FALSE, value |-> x]
      exit(r) == [r |-> r, stop |-> TRUE, value |-> value]
  IN
  IF name = "length" THEN
    IF optd # <<>> /\ ~Has(optd[1], "value") THEN exit(Ok(I, Undef))
    ELSE
      LET v0 == IF optd # <<>> THEN optd[1]["value"] ELSE value
          n == legalArrayLength(v0)
      IN IF n = -1
           THEN exit(this_throwException(I, Obj(RANGE_ERROR), Str("Invalid array length")))
         ELSE IF len.t = "number" /\ n < len.v
           THEN LET d == this_DeleteFrom(o, n)
                    J == [I EXCEPT !.objs[obj.v] = d.o]
                IN IF ~d.ok
                     THEN exit(HostError(J, "TypeError: Cannot delete property"))
                     ELSE cont(J, Num(n))
         ELSE cont(I, Num(n))
  ELSE IF legalArrayIndex(name) # -1 THEN
    \* obj.properties.length = Math.max(len, i + 1)
    LET i == legalArrayIndex(name)
        newLen == IF len.t = "number"
                    THEN Num(IF len.v > i + 1 THEN len.v ELSE i + 1)
                    ELSE NaN
        a == HostAssign(o, "length", newLen)
    IN IF ~a.ok
         THEN exit(HostError(I, "TypeError: Cannot assign to read only property 'length'"))
         ELSE cont([I EXCEPT !.objs[obj.v] = a.o], value)
  ELSE cont(I, value)

\* The descriptor branch of setProperty (obj is an object, d the
\* descriptor passed as opt_descriptor).
SetPropertyDefine(I, obj, name, value, d) ==
  LET o == I.objs[obj.v]
      useGet == Has(d, "get") /\ Truthy(d["get"])
      useSet == Has(d, "set") /\ Truthy(d["set"])
      g1 == IF useGet THEN Put(o.getter, name, d["get"]) ELSE o.getter
      s1 == IF useSet THEN Put(o.setter, name, d["set"]) ELSE o.setter
      hasValue == Has(d, "value") \/ value # VALUE_IN_DESCRIPTOR
      clear == Has(d, "writable") \/ hasValue
      g2 == IF clear THEN Del(g1, name) ELSE g1
      s2 == IF clear THEN Del(s1, name) ELSE s1
      descriptor ==
        [f \in ({"get"} \cap (IF useGet THEN {"get"} ELSE {}))
               \cup ({"set"} \cap (IF useSet THEN {"set"} ELSE {}))
               \cup ({"configurable", "enumerable", "writable"} \cap DOMAIN d)
               \cup (IF hasValue THEN {"value"} ELSE {})
          |-> IF f = "value"
                THEN (IF Has(d, "value") THEN d["value"] ELSE value)
                ELSE d[f]]
      o1 == [o EXCEPT !.getter = g2, !.setter = s2]
      def == this_HostDefineProperty(o1, name, descriptor)
      I1 == [I EXCEPT !.objs[obj.v] = o1]
  IN IF ~def.ok
       THEN this_throwException(I1, Obj(TYPE_ERROR), Str("Cannot redefine property: " \o name))
       ELSE
         \* The definition has succeeded: clean up obsolete get/set funcs.
         LET g3 == IF Has(d, "get") /\ ~Truthy(d["get"]) THEN Del(g2, name) ELSE g2
             s3 == IF Has(d, "set") /\ ~Truthy(d["set"]) THEN Del(s2, name) ELSE s2
         IN Ok([I EXCEPT !.objs[obj.v] = [def.o EXCEPT !.getter = g3, !.setter = s3]], Undef)

\* The plain-assignment branch of setProperty.
SetPropertyAssign(I, obj, name, value, strict) ==
  IF value = VALUE_IN_DESCRIPTOR
    THEN HostError(I, "ReferenceError: Value not specified.")
  ELSE
    LET own == Owner(I.objs, obj.v, name)
        \* A new property is defined on the receiver itself.
        defObj == IF own = 0 THEN obj.v ELSE own
    IN IF name \in DOMAIN I.objs[defObj].setter /\ Truthy(I.objs[defObj].setter[name])
         THEN Ok([I EXCEPT !.setterStep_ = TRUE], I.objs[defObj].setter[name])
       ELSE IF name \in DOMAIN I.objs[defObj].getter /\ Truthy(I.objs[defObj].getter[name])
         THEN IF strict
                THEN this_throwException(I, Obj(TYPE_ERROR),
                       Str("Cannot set property '" \o name \o "' which only has a getter"))
                ELSE Ok(I, Undef)
       ELSE
         \* No setter, simple assignment.
         LET a == HostAssign(I.objs[obj.v], name, value)
         IN IF a.ok THEN Ok([I EXCEPT !.objs[obj.v] = a.o], Undef)
            ELSE IF strict
              THEN this_throwException(I, Obj(TYPE_ERROR),
                     Str("Cannot assign to read only property '" \o name \o "'"))
              ELSE Ok(I, Undef)

\* setProperty(obj, name, value, opt_descriptor); optd is <<>> when no
\* descriptor is passed and <<d>> otherwise.  ret is the setter to call
\* (with setterStep_ raised) or undefined.
setProperty(I, obj, name, value, optd) ==
  IF I.setterStep_
    THEN HostError(I, "Error: Setter not supported in that context")
  ELSE IF IsNullish(obj)
    THEN this_throwException(I, Obj(TYPE_ERROR),
           Str("Cannot set property '" \o name \o "' of " \o ToName(obj)))
  ELSE IF IsMarker(obj)
    THEN HostError(I, "TypeError: Expecting native value or pseudo object")
  ELSE IF /\ optd # <<>>
          /\ (Has(optd[1], "get") \/ Has(optd[1], "set"))
          /\ (Has(optd[1], "value") \/ Has(optd[1], "writable"))
    THEN this_throwException(I, Obj(TYPE_ERROR),
           Str("Invalid property descriptor. Cannot both specify accessors and a value or writable attribute"))
  ELSE
    \* !this.stateStack || this.getScope().strict : the stack does not exist
    \* yet while the constructor builds the global scope.
    LET strict == Len(I.stateStack) = 0 \/ getScope(I).strict
    IN
    IF ~IsObj(obj)
      THEN IF strict
             THEN this_throwException(I, Obj(TYPE_ERROR),
                    Str("Can't create property '" \o name \o "' on '" \o ToName(obj) \o "'"))
             ELSE Ok(I, Undef)
    ELSE
      LET arr == IF I.objs[obj.v].class = "Array"
                   THEN this_SetPropertyArray(I, obj, name, value, optd)
                   ELSE [r |-> Ok(I, Undef), stop |-> FALSE, value |-> value]
          J == arr.r.I
      IN
      IF arr.stop THEN arr.r
      ELSE IF J.objs[obj.v].preventExtensions /\ name \notin DOMAIN J.objs[obj.v].properties
        THEN IF strict
               THEN this_throwException(J, Obj(TYPE_ERROR),
                      Str("Can't add property '" \o name \o "', object is not extensible"))
               ELSE Ok(J, Undef)
      ELSE IF optd # <<>>
        THEN this_SetPropertyDefine(J, obj, name, arr.value, optd[1])
        ELSE this_SetPropertyAssign(J, obj, name, arr.value, strict)

(***************************************************************************)
(* AST nodes, in the shape the parser produces.  `end` is TRUE when the    *)
(* node carries a source location (polyfill nodes are stripped of it).     *)
(* A child that may be absent is a sequence of at most one node; a body    *)
(* that is a list of statements is `body`, a body that is one statement    *)
(* (function, with) is `block`.                                            *)
(***************************************************************************)
Program(e, body) == [type |-> "Program", end |-> e, body |-> body]
BlockStatement(e, body) == [type |-> "BlockStatement", end |-> e, body |-> body]
ExpressionStatement(e, expression) ==
  [type |-> "ExpressionStatement", end |-> e, expression |-> expression]
Literal(e, value) == [type |-> "Literal", end |-> e, value |-> value]
Identifier(e, name) == [type |-> "Identifier", end |-> e, name |-> name]
ThisExpression(e) == [type |-> "ThisExpression", end |-> e]
MemberExpression(e, object, property, computed) ==
  [type |-> "MemberExpression", end |-> e, object |-> object,
   property |-> property, computed |-> computed]
AssignmentExpression(e, operator, left, right) ==
  [type |-> "AssignmentExpression", end |-> e, operator |-> operator,
   left |-> left, right |-> right]
BinaryExpression(e, operator, left, right) ==
  [type |-> "BinaryExpression", end |-> e, operator |-> operator,
   left |-> left, right |-> right]
LogicalExpression(e, operator, left, right) ==
  [type |-> "LogicalExpression", end |-> e, operator |-> operator,
   left |-> left, right |-> right]
UpdateExpression(e, operator, prefix, argument) ==
  [type |-> "UpdateExpression", end |-> e, operator |-> operator,
   prefix |-> prefix, argument |-> <<argument>>]
CallExpression(e, callee, arguments) ==
  [type |-> "CallExpression", end |-> e, callee |-> callee, arguments |-> arguments]
NewExpression(e, callee, arguments) ==
  [type |-> "NewExpression", end |-> e, callee |-> callee, arguments |-> arguments]
ArrayExpression(e, elements) ==
  [type |-> "ArrayExpression", end |-> e, elements |-> elements]
Property(key, kind, valueNode) == [key |-> key, kind |-> kind, valueNode |-> valueNode]
ObjectExpression(e, properties) ==
  [type |-> "ObjectExpression", end |-> e, properties |-> properties]
VariableDeclarator(name, init) ==
  [type |-> "VariableDeclarator", name |-> name, init |-> init]
VariableDeclaration(e, declarations) ==
  [type |-> "VariableDeclaration", end |-> e, declarations |-> declarations]
FunctionDeclaration(e, id, params, block) ==
  [type |-> "FunctionDeclaration", end |-> e, id |-> id, params |-> params,
   block |-> block]
FunctionExpression(e, id, params, block) ==
  [type |-> "FunctionExpression", end |-> e, id |-> id, params |-> params,
   block |-> block]
ReturnStatement(e, argument) ==
  [type |-> "ReturnStatement", end |-> e, argument |-> argument]
IfStatement(e, test, consequent, alternate) ==
  [type |-> "IfStatement", end |-> e, test |-> test, consequent |-> consequent,
   alternate |-> alternate]
WithStatement(e, object, block) ==
  [type |-> "WithStatement", end |-> e, object |-> object, block |-> block]
ThrowStatement(e, argument) ==
  [type |-> "ThrowStatement", end |-> e, argument |-> argument]
UnaryExpression(e, operator, argument) ==
  [type |-> "UnaryExpression", end |-> e, operator |-> operator, argument |-> argument]
ForInStatement(e, left, right, block) ==
  [type |-> "ForInStatement", end |-> e, left |-> left, right |-> right, block |-> block]
CatchClause(e, param, block) ==
  [type |-> "CatchClause", end |-> e, param |-> param, block |-> block]
TryStatement(e, block, handler, finalizer) ==
  [type |-> "TryStatement", end |-> e, block |-> block, handler |-> handler,
   finalizer |-> finalizer]
\* The label of a break, a continue or a labeled statement is the name of
\* its Identifier; an absent label is <<>>.
BreakStatement(e, label) == [type |-> "BreakStatement", end |-> e, label |-> label]
ContinueStatement(e, label) == [type |-> "ContinueStatement", end |-> e, label |-> label]
LabeledStatement(e, label, block) ==
  [type |-> "LabeledStatement", end |-> e, label |-> label, block |-> block]
DoWhileStatement(e, block, test) ==
  [type |-> "DoWhileStatement", end |-> e, block |-> block, test |-> test]
ForStatement(e, init, test, update, block) ==
  [type |-> "ForStatement", end |-> e, init |-> init, test |-> test,
   update |-> update, block |-> block]
WhileStatement(e, test, block) ==
  [type |-> "WhileStatement", end |-> e, test |-> test, block |-> block]
SwitchCase(test, consequent) ==
  [type |-> "SwitchCase", test |-> test, consequent |-> consequent]
SwitchStatement(e, discriminant, cases) ==
  [type |-> "SwitchStatement", end |-> e, discriminant |-> discriminant, cases |-> cases]

(***************************************************************************)
(* Scopes.                                                                 *)
(***************************************************************************)
\* A sequence of setProperty calls with descriptors, stopped by the first
\* one that throws.  ops: sequence of [obj, name, value, d].
RECURSIVE SetAll(_, _)
SetAll(I, ops) ==
  IF ops = <<>> THEN Ok(I, Undef)
  ELSE LET op == Head(ops)
           r == this_setProperty(I, op.obj, op.name, op.value, op.d)
       IN IF r.thrown # "none" THEN r ELSE SetAll(r.I, Tail(ops))
SetOp(obj, name, value, d) == [obj |-> obj, name |-> name, value |-> value, d |-> d]

\* createFunctionBase_(argumentLength, isConstructor).
createFunctionBase_(I, argumentLength, isConstructor) ==
  LET f == this_createObjectProto(I, Obj(FUNCTION_PROTO))
  IN IF f.thrown # "none" THEN f
     ELSE
       LET p == IF isConstructor THEN this_createObjectProto(f.I, Obj(OBJECT_PROTO))
                ELSE Ok([f.I EXCEPT !.objs[f.ret.v].illegalConstructor = TRUE], Undef)
           ops == (IF isConstructor
                     THEN << SetOp(f.ret, "prototype", p.ret, <<NONENUMERABLE_DESCRIPTOR>>),
                             SetOp(p.ret, "constructor", f.ret, <<NONENUMERABLE_DESCRIPTOR>>) >>
                     ELSE << >>)
                  \o << SetOp(f.ret, "length", Num(argumentLength),
                              <<READONLY_NONENUMERABLE_DESCRIPTOR>>) >>
           s == this_SetAll(p.I, ops)
       IN IF s.thrown # "none" THEN s
          ELSE Ok([s.I EXCEPT !.objs[f.ret.v].class = "Function"], f.ret)

\* createFunction(node, scope, opt_name).
createFunction(I, node, scope, opt_name) ==
  LET b == this_createFunctionBase_(I, Len(node.params), TRUE)
  IN IF b.thrown # "none" THEN b
     ELSE
       LET I1 == [b.I EXCEPT !.objs[b.ret.v].parentScope = scope,
                             !.objs[b.ret.v].node = <<node>>]
           name == IF node.id # "" THEN node.id ELSE opt_name
           s == this_setProperty(I1, b.ret, "name", Str(name),
                            <<READONLY_NONENUMERABLE_DESCRIPTOR>>)
       IN IF s.thrown # "none" THEN s ELSE Ok(s.I, b.ret)

ErrorNatives == {"Error", "RangeError", "ReferenceError", "SyntaxError", "TypeError"}
\* nativeFunc.name: the wrappers of the Error subclasses are anonymous.
NativeName(nativeFunc) == IF nativeFunc \in ErrorNatives \ {"Error"} THEN "" ELSE nativeFunc

\* createNativeFunction / createAsyncFunction: the host function is named
\* by a string (see CallNative and the async branch of stepCallExpression).
createNativeFunction(I, nativeFunc, argumentLength, isConstructor) ==
  LET b == this_createFunctionBase_(I, argumentLength, isConstructor)
  IN IF b.thrown # "none" THEN b
     ELSE
       LET I1 == [b.I EXCEPT !.objs[b.ret.v].nativeFunc = nativeFunc]
           s == this_setProperty(I1, b.ret, "name", Str(NativeName(nativeFunc)),
                            <<READONLY_NONENUMERABLE_DESCRIPTOR>>)
       IN IF s.thrown # "none" THEN s ELSE Ok(s.I, b.ret)

createAsyncFunction(I, asyncFunc, argumentLength) ==
  LET b == this_createFunctionBase_(I, argumentLength, TRUE)
  IN IF b.thrown # "none" THEN b
     ELSE
       LET I1 == [b.I EXCEPT !.objs[b.ret.v].asyncFunc = asyncFunc]
           s == this_setProperty(I1, b.ret, "name", Str(asyncFunc),
                            <<READONLY_NONENUMERABLE_DESCRIPTOR>>)
       IN IF s.thrown # "none" THEN s ELSE Ok(s.I, b.ret)

\* createArray(): the class tag is set after `length` has been defined.
createArray(I) ==
  LET a == this_createObjectProto(I, Obj(ARRAY_PROTO))
  IN IF a.thrown # "none" THEN a
     ELSE LET s == this_setProperty(a.I, a.ret, "length", Num(0), <<ARRAY_LENGTH_DESCRIPTOR>>)
          IN IF s.thrown # "none" THEN s
             ELSE Ok([s.I EXCEPT !.objs[a.ret.v].class = "Array"], a.ret)

\* The declarations populateScope_ finds under a node, in source order:
\* it does not descend into functions and expression statements.
RECURSIVE Decls(_), DeclsSeq(_), DeclsCases(_)
DeclsSeq(q) == IF q = <<>> THEN <<>> ELSE Decls(Head(q)) \o DeclsSeq(Tail(q))
DeclsCases(q) ==
  IF q = <<>> THEN <<>> ELSE DeclsSeq(Head(q).consequent) \o DeclsCases(Tail(q))
Decls(node) ==
  CASE node.type = "VariableDeclaration" ->
         [i \in 1..Len(node.declarations) |->
            [kind |-> "var", name |-> node.declarations[i].name, node |-> <<>>]]
    [] node.type = "FunctionDeclaration" ->
         << [kind |-> "function", name |-> node.id, node |-> <<node>>] >>
    [] node.type \in {"Program", "BlockStatement"} -> DeclsSeq(node.body)
    [] node.type = "IfStatement" ->
         Decls(node.consequent) \o DeclsSeq(node.alternate)
    [] node.type = "WithStatement" -> Decls(node.block)
    [] node.type = "TryStatement" ->
         Decls(node.block) \o DeclsSeq(node.handler) \o DeclsSeq(node.finalizer)
    [] node.type = "CatchClause" -> Decls(node.block)
    [] node.type = "ForInStatement" -> Decls(node.left) \o Decls(node.block)
    [] node.type \in {"LabeledStatement", "DoWhileStatement", "WhileStatement"} ->
         Decls(node.block)
    [] node.type = "ForStatement" -> DeclsSeq(node.init) \o Decls(node.block)
    [] node.type = "SwitchStatement" -> DeclsCases(node.cases)
    [] OTHER -> <<>>

RECURSIVE ApplyDecls(_, _, _)
ApplyDecls(I, decls, scope) ==
  IF decls = <<>> THEN Ok(I, Undef)
  ELSE
    LET d == Head(decls)
        target == Obj(I.scopes[scope].object)
    IN IF d.kind = "var"
         THEN LET s == this_setProperty(I, target, d.name, Undef, <<VARIABLE_DESCRIPTOR>>)
              IN IF s.thrown # "none" THEN s ELSE ApplyDecls(s.I, Tail(decls), scope)
         ELSE LET f == this_createFunction(I, d.node[1], scope, "")
              IN IF f.thrown # "none" THEN f
                 ELSE LET s == this_setProperty(f.I, target, d.name, f.ret, <<VARIABLE_DESCRIPTOR>>)
                      IN IF s.thrown # "none" THEN s
                         ELSE ApplyDecls(s.I, Tail(decls), scope)

populateScope_(I, node, scope) == this_ApplyDecls(I, Decls(node), scope)

\* Does a body start with the directive "use strict"?
StartsStrict(node) ==
  /\ node.type \in {"Program", "BlockStatement"}
  /\ node.body # <<>>
  /\ node.body[1].type = "ExpressionStatement"
  /\ node.body[1].expression.type = "Literal"
  /\ node.body[1].expression.value = Str("use strict")

\* createScope(node, parentScope) for a function body (parentScope # 0; the
\* global scope is built by the constructor, see InitInterp).  ret is the
\* index of the new scope.
createScope(I, node, parentScope) ==
  LET strict == I.scopes[parentScope].strict \/ StartsStrict(node)
      o == this_createObjectProto(I, Null)
  IN IF o.thrown # "none" THEN o
     ELSE LET id == Len(o.I.scopes) + 1
              I1 == [o.I EXCEPT !.scopes = Append(@, Scope(parentScope, strict, o.ret.v))]
              p == this_populateScope_(I1, node, id)
          IN IF p.thrown # "none" THEN p ELSE Ok(p.I, Num(id))

\* createSpecialScope(parentScope, opt_object): opt_object is used when it
\* is truthy, a fresh object otherwise.
createSpecialScope(I, parentScope, opt_object) ==
  LET o == IF Truthy(opt_object) THEN Ok(I, opt_object) ELSE this_createObjectProto(I, Null)
  IN IF o.thrown # "none" THEN o
     ELSE Ok([o.I EXCEPT !.scopes =
                 Append(@, Scope(parentScope, I.scopes[parentScope].strict, o.ret.v))],
             Num(Len(o.I.scopes) + 1))

\* A host regular expression, and String(regexp).
NativeRegExp(source, flags, lastIndex) ==
  [t |-> "RegExp", source |-> source, flags |-> flags, lastIndex |-> lastIndex]
RegExpText(r) == "/" \o r.source \o "/" \o r.flags

\* InterpreterObject.data: the class has a getter for it and no setter.
data(o) == Null

\* populateRegExp(pseudoRegexp, nativeRegexp): its first statement assigns
\* pseudoRegexp.data, which throws in the (strict) host code; the
\* properties lastIndex, source, global, ignoreCase and multiline that the
\* following statements would set are never set.
populateRegExp(I, pseudoRegexp, nativeRegexp) ==
  HostError(I, "TypeError: Cannot set property data of #<InterpreterObject> which has only a getter")

\* boxThis_(value): a primitive is boxed in a fresh object whose `data` is
\* then assigned; InterpreterObject defines `data` by a getter alone, so
\* that assignment throws in the (strict) host code.
boxThis_(I, value) ==
  IF IsNullish(value) THEN Ok(I, Obj(GLOBAL_OBJECT))
  ELSE IF IsObj(value) THEN Ok(I, value)
  ELSE IF IsMarker(value) THEN HostError(I, "Error: Non object prototype")
  ELSE HostError(I, "TypeError: Cannot set property data of #<InterpreterObject> which has only a getter")


(***************************************************************************)
(* Variables: the scope chain.                                             *)
(***************************************************************************)
\* The first scope below the global one, starting at `scope`, whose object
\* has `name` as an own slot; GLOBAL_SCOPE when the walk reaches the root.
RECURSIVE ScopeWith(_, _, _)
ScopeWith(I, scope, name) ==
  IF scope = 0 \/ scope = GLOBAL_SCOPE THEN scope
  ELSE IF name \in DOMAIN I.objs[I.scopes[scope].object].properties THEN scope
  ELSE ScopeWith(I, I.scopes[scope].parentScope, name)

\* A getValueFromScope that reads an unbound name as undefined.
getValueFromScope_Undefined(I, name) ==
  LET scope == ScopeWith(I, Top(I).scope, name)
      global == Obj(I.scopes[GLOBAL_SCOPE].object)
  IN IF scope # 0 /\ scope # GLOBAL_SCOPE
       THEN Ok(I, I.objs[I.scopes[scope].object].properties[name])
     ELSE IF scope = GLOBAL_SCOPE /\ this_hasProperty(I, global, name).ret = Bool(TRUE)
       THEN this_getProperty(I, global, name)
     ELSE Ok(I, Undef)

\* getValueFromScope(name).  Below the global scope the slot is read
\* directly from the scope object.
getValueFromScope(I, name) ==
  LET scope == ScopeWith(I, Top(I).scope, name)
      global == Obj(I.scopes[GLOBAL_SCOPE].object)
      prevNode == Top(I).node
  IN IF scope # 0 /\ scope # GLOBAL_SCOPE
       THEN LET o == I.objs[I.scopes[scope].object]
            IN IF o.attrs[name].accessor /\ o.attrs[name].hasGet
                 THEN HostError(I, "Error: Placeholder getter")
                 ELSE Ok(I, o.properties[name])
     ELSE IF scope = GLOBAL_SCOPE /\ this_hasProperty(I, global, name).ret = Bool(TRUE)
       THEN this_getProperty(I, global, name)
     ELSE IF prevNode.type = "UnaryExpression" /\ prevNode.operator = "typeof"
       THEN Ok(I, Undef)
     ELSE this_throwException(I, Obj(REFERENCE_ERROR), Str(name \o " is not defined"))

\* A setValueToScope that creates the global binding in strict code too.
setValueToScope_IgnoresStrict(I, name, value) ==
  LET scope == ScopeWith(I, Top(I).scope, name)
  IN IF scope # 0 /\ scope # GLOBAL_SCOPE
       THEN LET id == I.scopes[scope].object
                a == HostAssign(I.objs[id], name, value)
            IN IF a.ok THEN Ok([I EXCEPT !.objs[id] = a.o], Undef)
               ELSE HostError(I, "TypeError: Cannot assign to read only property '"
                                  \o name \o "'")
     ELSE this_setProperty(I, Obj(I.scopes[GLOBAL_SCOPE].object), name, value, <<>>)

\* setValueToScope(name, value).  Below the global scope the slot is
\* written directly on the scope object (a host assignment), not through
\* setProperty.
setValueToScope(I, name, value) ==
  LET strict == getScope(I).strict
      scope == ScopeWith(I, Top(I).scope, name)
      global == Obj(I.scopes[GLOBAL_SCOPE].object)
  IN IF scope # 0 /\ scope # GLOBAL_SCOPE
       THEN LET id == I.scopes[scope].object
                a == HostAssign(I.objs[id], name, value)
            IN IF a.ok THEN Ok([I EXCEPT !.objs[id] = a.o], Undef)
               ELSE HostError(I, "TypeError: Cannot assign to read only property '"
                                  \o name \o "'")
     ELSE IF scope = GLOBAL_SCOPE
             /\ (~strict \/ this_hasProperty(I, global, name).ret = Bool(TRUE))
       THEN this_setProperty(I, global, name, value, <<>>)
     ELSE this_throwException(I, Obj(REFERENCE_ERROR), Str(name \o " is not defined"))

\* getValue(ref) / setValue(ref, value): ref is a reference [base, name].
getValue(I, ref) ==
  IF RefBase(ref) = SCOPE_REFERENCE
    THEN this_getValueFromScope(I, RefName(ref))
    ELSE this_getProperty(I, RefBase(ref), RefName(ref))

setValue(I, ref, value) ==
  IF RefBase(ref) = SCOPE_REFERENCE
    THEN this_setValueToScope(I, RefName(ref), value)
    ELSE this_setProperty(I, RefBase(ref), RefName(ref), value, <<>>)

(***************************************************************************)
(* Synthesized accessor calls.  The node made by `new nodeConstructor` has *)
(* a type and no location.  ret is unused: the new frame is in `frame`.    *)
(***************************************************************************)
WithFrame(r, frame) == [I |-> r.I, ret |-> r.ret, thrown |-> r.thrown, msg |-> r.msg,
                        frame |-> frame]
NoFrame == <<>>

AccessorCallNode == [type |-> "CallExpression", end |-> FALSE]

\* createGetter_(func, left): `this` is the base of a reference, or `left`
\* itself when it is not one.  getterFrames is a history counter of the
\* frames synthesized here.
createGetter_(I, func, left) ==
  IF ~I.getterStep_
    THEN WithFrame(HostError(I, "Error: Unexpected call to createGetter"), NoFrame)
    ELSE
      LET funcThis == IF IsRef(left) THEN RefBase(left) ELSE left
          state == [NewState(I, AccessorCallNode, Top(I).scope) EXCEPT
                      !.doneCallee_ = 3, !.funcThis_ = funcThis, !.func_ = func,
                      !.doneArgs_ = TRUE, !.arguments_ = <<>>]
      IN WithFrame(Ok([I EXCEPT !.getterStep_ = FALSE, !.stateCounter = state.id,
                                !.getterFrames = @ + 1], Undef),
                   <<state>>)

\* createSetter_(func, left, value): `this` is the base of a reference, or
\* the global object.
createSetter_(I, func, left, value) ==
  IF ~I.setterStep_
    THEN WithFrame(HostError(I, "Error: Unexpected call to createSetter"), NoFrame)
    ELSE
      LET funcThis == IF IsRef(left) THEN RefBase(left) ELSE Obj(GLOBAL_OBJECT)
          state == [NewState(I, AccessorCallNode, Top(I).scope) EXCEPT
                      !.doneCallee_ = 3, !.funcThis_ = funcThis, !.func_ = func,
                      !.doneArgs_ = TRUE, !.arguments_ = <<value>>]
      IN WithFrame(Ok([I EXCEPT !.setterStep_ = FALSE, !.stateCounter = state.id], Undef),
                   <<state>>)


(***************************************************************************)
(* Step functions.  Each works on the top frame `state` of the stack and   *)
(* returns, in `frame`, the State to push next (or none).                  *)
(***************************************************************************)
Return(I) == WithFrame(Ok(I, Undef), NoFrame)
Fail(r) == WithFrame(r, NoFrame)
\* return new State(node, scope)
Enter(I, node, scope) ==
  LET s == NewState(I, node, scope)
  IN WithFrame(Ok([I EXCEPT !.stateCounter = s.id], Undef), <<s>>)
\* Replace the top frame.
TopWith(I, frame) == [I EXCEPT !.stateStack[Len(I.stateStack)] = frame]

\* A stepProgram that pops the Program frame when no statement is left.
stepProgram_Pops(I) ==
  LET state == Top(I)
      node == state.node
  IN IF node.body # <<>>
       THEN Enter(TopWith(I, [state EXCEPT !.node.body = Tail(node.body),
                                           !.done = FALSE]),
                  Head(node.body), state.scope)
       ELSE Return(Pop(I))

stepProgram(I) ==
  LET state == Top(I)
      node == state.node
  IN IF node.body # <<>>
       \* node.body.shift()
       THEN Enter(TopWith(I, [state EXCEPT !.node.body = Tail(node.body),
                                           !.done = FALSE]),
                  Head(node.body), state.scope)
       \* Don't pop the stateStack.
       ELSE Return(SetTop(I, "done", TRUE))

stepBlockStatement(I) ==
  LET state == Top(I)
      n == state.n_
  IN IF n + 1 <= Len(state.node.body)
       THEN Enter(SetTop(I, "n_", n + 1), state.node.body[n + 1], state.scope)
       ELSE Return(Pop(I))

\* A stepExpressionStatement that does not save the statement's value.
stepExpressionStatement_KeepsValue(I) ==
  LET state == Top(I)
  IN IF ~state.done_
       THEN Enter(SetTop(I, "done_", TRUE), state.node.expression, state.scope)
       ELSE Return([Pop(I) EXCEPT !.completed = Append(@, state.value),
                                  !.valueReset = FALSE])

stepExpressionStatement(I) ==
  LET state == Top(I)
  IN IF ~state.done_
       THEN Enter(SetTop(I, "done_", TRUE), state.node.expression, state.scope)
       \* Save this value to interpreter.value (completed: history of the
       \* values of the expression statements that have completed).
       ELSE Return([Pop(I) EXCEPT !.value = state.value,
                                  !.completed = Append(@, state.value),
                                  !.valueReset = FALSE])

\* stepConditionalExpression, which stepIfStatement delegates to.
stepConditionalExpression(I) ==
  LET state == Top(I)
      node == state.node
      value == Truthy(state.value)
      hasAlternate == node.alternate # <<>>
      \* this.value = undefined  (valueReset: history, the reset came after
      \* the last expression statement that completed)
      J == Pop(IF state.mode_ = 1
                 THEN [I EXCEPT !.value = Undef, !.valueReset = TRUE] ELSE I)
  IN IF state.mode_ = 0
       THEN Enter(SetTop(I, "mode_", 1), node.test, state.scope)
     ELSE IF state.mode_ = 1 /\ value
       THEN Enter(SetTop(I, "mode_", 2), node.consequent, state.scope)
     ELSE IF state.mode_ = 1 /\ ~value /\ hasAlternate
       THEN Enter(SetTop(I, "mode_", 2), node.alternate[1], state.scope)
     ELSE IF node.type = "ConditionalExpression"
       THEN Return(SetTop(J, "value", state.value))
       ELSE Return(J)

stepIfStatement(I) == this_stepConditionalExpression(I)

stepFunctionDeclaration(I) == Return(Pop(I))

stepFunctionExpression(I) ==
  LET J == Pop(I)
      f == this_createFunction(J, Top(I).node, Top(J).scope, Top(J).destinationName)
  IN IF f.thrown # "none" THEN Fail(f)
     ELSE Return(SetTop(f.I, "value", f.ret))

\* stepLiteral: a regular-expression literal is wrapped in a new object.
stepLiteral(I) ==
  LET value == Top(I).node.value
      J == Pop(I)
      pseudoRegexp == this_createObjectProto(J, Obj(REGEXP_PROTO))
      p == populateRegExp(pseudoRegexp.I, pseudoRegexp.ret, value)
  IN IF value.t # "RegExp" THEN Return(SetTop(J, "value", value))
     ELSE IF p.thrown # "none" THEN Fail(p)
     ELSE Return(SetTop(p.I, "value", pseudoRegexp.ret))

stepIdentifier(I) ==
  LET state == Top(I)
      J == Pop(I)
  IN IF state.components
       THEN Return(SetTop(J, "value", Ref(SCOPE_REFERENCE, state.node.name)))
       ELSE
         LET g == this_getValueFromScope(J, state.node.name)
         IN IF g.thrown # "none" THEN Fail(g)
            \* An identifier could be a getter if it's a property on the
            \* global object: call the getter function.
            ELSE IF g.I.getterStep_
              THEN this_createGetter_(g.I, g.ret, Obj(GLOBAL_OBJECT))
            ELSE Return(SetTop(g.I, "value", g.ret))

stepThisExpression(I) ==
  LET g == this_getValueFromScope(Pop(I), "this")
  IN IF g.thrown # "none" THEN Fail(g)
     ELSE Return(SetTop(g.I, "value", g.ret))

stepReturnStatement(I) ==
  LET state == Top(I)
  IN IF state.node.argument # <<>> /\ ~state.done_
       THEN Enter(SetTop(I, "done_", TRUE), state.node.argument[1], state.scope)
       ELSE Fail(this_unwind(I, RETURN, state.value, ""))

\* The index (from 0) of the first declarator at or after n that has an
\* initialiser, or -1.
NextInit(declarations, n) ==
  LET c == {i \in n..(Len(declarations) - 1) : declarations[i + 1].init # <<>>}
  IN IF c = {} THEN -1 ELSE CHOOSE i \in c : \A j \in c : i <= j

stepVariableDeclaration(I) ==
  LET state == Top(I)
      declarations == state.node.declarations
      n0 == state.n_
      assign == state.init_ /\ n0 < Len(declarations)
      s == IF assign
             THEN this_setValueToScope(I, declarations[n0 + 1].name, state.value)
             ELSE Ok(I, Undef)
      st1 == IF assign THEN [Top(s.I) EXCEPT !.init_ = FALSE] ELSE Top(s.I)
      n == NextInit(declarations, IF assign THEN n0 + 1 ELSE n0)
  IN IF s.thrown # "none" THEN Fail(s)
     ELSE IF n # -1
       THEN Enter(TopWith(s.I, [st1 EXCEPT !.n_ = n, !.init_ = TRUE,
                                          !.destinationName = declarations[n + 1].name]),
                  declarations[n + 1].init[1], state.scope)
       ELSE Return(Pop(TopWith(s.I, st1)))

stepWithStatement(I) ==
  LET state == Top(I)
  IN IF ~state.doneObject_
       THEN Enter(SetTop(I, "doneObject_", TRUE), state.node.object, state.scope)
     ELSE IF ~state.doneBody_
       THEN LET c == this_createSpecialScope(SetTop(I, "doneBody_", TRUE),
                                        state.scope, state.value)
            IN IF c.thrown # "none" THEN Fail(c)
               ELSE Enter(c.I, state.node.block, c.ret.v)
     ELSE Return(Pop(I))


\* Host operators on the values of the modelled programs (numbers,
\* strings, booleans; -1 as a length/index stands for NaN elsewhere, here
\* NaN is the value NaN).
IsNumeric(x) == ToNumber(x).t = "number"
Arith(op, l, r) ==
  LET a == ToNumber(l)
      b == ToNumber(r)
  IN IF op = "+" /\ (l.t = "string" \/ r.t = "string")
       THEN Str(ToName(l) \o ToName(r))
     ELSE IF a.t # "number" \/ b.t # "number" THEN NaN
     ELSE CASE op = "+" -> Num(a.v + b.v)
            [] op = "-" -> Num(a.v - b.v)
            [] op = "*" -> Num(a.v * b.v)
            [] OTHER -> NaN
StrictEquals(l, r) == l.t # "NaN" /\ l = r
Compare(op, l, r) ==
  LET a == ToNumber(l)
      b == ToNumber(r)
  IN IF a.t # "number" \/ b.t # "number" THEN Bool(FALSE)
     ELSE CASE op = "<" -> Bool(a.v < b.v)
            [] op = "<=" -> Bool(a.v <= b.v)
            [] op = ">" -> Bool(a.v > b.v)
            [] op = ">=" -> Bool(a.v >= b.v)
            [] OTHER -> Bool(FALSE)
ArithOperators == {"+", "-", "*"}
CompareOperators == {"<", "<=", ">", ">="}

\* The `in` operator of stepBinaryExpression.
BinaryIn(I, leftValue, rightValue) ==
  IF ~IsObj(rightValue)
    THEN this_throwException(I, Obj(TYPE_ERROR),
           Str("'in' expects an object, not '" \o ToName(rightValue) \o "'"))
    ELSE this_hasProperty(I, rightValue, ToName(leftValue))

stepBinaryExpression(I) ==
  LET state == Top(I)
      node == state.node
      op == node.operator
      J == Pop(I)
  IN IF ~state.doneLeft_
       THEN Enter(SetTop(I, "doneLeft_", TRUE), node.left, state.scope)
     ELSE IF ~state.doneRight_
       THEN Enter(TopWith(I, [state EXCEPT !.doneRight_ = TRUE, !.leftValue_ = state.value]),
                  node.right, state.scope)
     ELSE IF op \in ArithOperators
       THEN Return(SetTop(J, "value", Arith(op, state.leftValue_, state.value)))
     ELSE IF op \in CompareOperators
       THEN Return(SetTop(J, "value", Compare(op, state.leftValue_, state.value)))
     ELSE IF op = "==="
       THEN Return(SetTop(J, "value", Bool(StrictEquals(state.leftValue_, state.value))))
     ELSE IF op = "!=="
       THEN Return(SetTop(J, "value", Bool(~StrictEquals(state.leftValue_, state.value))))
     ELSE IF op = "in"
       THEN LET h == BinaryIn(J, state.leftValue_, state.value)
            IN IF h.thrown # "none" THEN Fail(h)
               ELSE Return(SetTop(h.I, "value", h.ret))
     ELSE Fail(HostError(J, "SyntaxError: Unknown binary operator: " \o op))

stepLogicalExpression(I) ==
  LET state == Top(I)
      node == state.node
      J == Pop(I)
  IN IF node.operator # "&&" /\ node.operator # "||"
       THEN Fail(HostError(I, "SyntaxError: Unknown logical operator: " \o node.operator))
     ELSE IF ~state.doneLeft_
       THEN Enter(SetTop(I, "doneLeft_", TRUE), node.left, state.scope)
     ELSE IF ~state.doneRight_
             /\ ~ \/ (node.operator = "&&" /\ ~Truthy(state.value))
                  \/ (node.operator = "||" /\ Truthy(state.value))
       THEN Enter(SetTop(I, "doneRight_", TRUE), node.right, state.scope)
     \* Shortcut evaluation, or the right side has been evaluated.
     ELSE Return(SetTop(J, "value", state.value))

stepMemberExpression(I) ==
  LET state == Top(I)
      node == state.node
      J == Pop(I)
      object_ == IF ~node.computed \/ ~state.doneProperty_
                   THEN state.value ELSE state.object_
      propName == IF ~node.computed THEN node.property.name ELSE ToName(state.value)
  IN IF ~state.doneObject_
       THEN Enter(SetTop(I, "doneObject_", TRUE), node.object, state.scope)
     ELSE IF node.computed /\ ~state.doneProperty_
       THEN Enter(TopWith(I, [state EXCEPT !.object_ = state.value,
                                           !.doneProperty_ = TRUE]),
                  node.property, state.scope)
     ELSE IF state.components
       THEN Return(SetTop(J, "value", Ref(object_, propName)))
     ELSE
       LET g == this_getProperty(J, object_, propName)
       IN IF g.thrown # "none" THEN Fail(g)
          \* Call the getter function.
          ELSE IF g.I.getterStep_ THEN this_createGetter_(g.I, g.ret, object_)
          ELSE Return(SetTop(g.I, "value", g.ret))

AssignmentOperators == {"=", "+=", "-=", "*="}

\* The end of stepAssignmentExpression and of stepUpdateExpression:
\* s is what this.setValue(reference, value) returned, returnValue the
\* value of the expression.
AfterSetValue(s, reference, value, returnValue) ==
  IF s.thrown # "none" THEN Fail(s)
  ELSE IF Truthy(s.ret)
    THEN this_createSetter_(TopWith(s.I, [Top(s.I) EXCEPT !.doneSetter_ = TRUE,
                                                     !.setterValue_ = returnValue]),
                       s.ret, reference, value)
  ELSE Return(SetTop(Pop(s.I), "value", returnValue))

\* stepAssignmentExpression once the left side is known: g is what
\* this.getValue(state.leftReference_) returned if the left value is read.
AssignmentRight(g, state, read, reference) ==
  LET node == state.node
      s2 == IF read THEN [Top(g.I) EXCEPT !.leftValue_ = g.ret] ELSE Top(g.I)
  IN IF g.thrown # "none" THEN Fail(g)
     ELSE IF read /\ g.I.getterStep_
       \* Call the getter function.
       THEN this_createGetter_(TopWith(g.I, [s2 EXCEPT !.doneGetter_ = TRUE]),
                          g.ret, reference)
     ELSE Enter(TopWith(g.I, [s2 EXCEPT !.doneRight_ = TRUE,
                                        !.destinationName =
                                           IF node.operator = "=" /\ node.left.type = "Identifier"
                                             THEN node.left.name ELSE @]),
                node.right, state.scope)

stepAssignmentExpression(I) ==
  LET state == Top(I)
      node == state.node
      op == node.operator
  IN
  IF ~state.doneLeft_ THEN
    LET e == Enter(SetTop(I, "doneLeft_", TRUE), node.left, state.scope)
    IN [e EXCEPT !.frame[1].components = TRUE]
  ELSE IF ~state.doneRight_ THEN
    LET s1 == [state EXCEPT
                 !.leftReference_ = IF ~Truthy(@) THEN state.value ELSE @,
                 !.leftValue_ = IF state.doneGetter_ THEN state.value ELSE @]
        read == ~state.doneGetter_ /\ op # "="
    IN AssignmentRight(IF read THEN this_getValue(TopWith(I, s1), s1.leftReference_)
                               ELSE Ok(TopWith(I, s1), Undef),
                       state, read, s1.leftReference_)
  ELSE IF state.doneSetter_ THEN
    \* The setter has completed: use the original set value.
    Return(SetTop(Pop(I), "value", state.setterValue_))
  ELSE IF op \notin AssignmentOperators THEN
    Fail(HostError(I, "SyntaxError: Unknown assignment expression: " \o op))
  ELSE
    LET rightValue == state.value
        value == CASE op = "=" -> rightValue
                   [] op = "+=" -> Arith("+", state.leftValue_, rightValue)
                   [] op = "-=" -> Arith("-", state.leftValue_, rightValue)
                   [] op = "*=" -> Arith("*", state.leftValue_, rightValue)
    IN AfterSetValue(this_setValue(I, state.leftReference_, value),
                     state.leftReference_, value, value)

\* stepUpdateExpression with the left value known: the new value is
\* computed and written.
UpdateChange(J, node, leftSide, leftValue) ==
  LET changeValue == Arith(IF node.operator = "++" THEN "+" ELSE "-", leftValue, Num(1))
      returnValue == IF node.prefix THEN changeValue ELSE leftValue
  IN AfterSetValue(this_setValue(J, leftSide, changeValue),
                   leftSide, changeValue, returnValue)

\* stepUpdateExpression once the left side is known: g is what
\* this.getValue(state.leftSide_) returned if the left value is read.
UpdateLeft(g, state, read, leftSide) ==
  LET node == state.node
      s2 == IF read THEN [Top(g.I) EXCEPT !.leftValue_ = g.ret] ELSE Top(g.I)
  IN IF g.thrown # "none" THEN Fail(g)
     ELSE IF read /\ g.I.getterStep_
       \* Call the getter function.
       THEN this_createGetter_(TopWith(g.I, [s2 EXCEPT !.doneGetter_ = TRUE]),
                          g.ret, leftSide)
     ELSE IF state.doneSetter_
       THEN Return(SetTop(Pop(g.I), "value", state.setterValue_))
     ELSE IF node.operator \notin {"++", "--"}
       THEN Fail(HostError(g.I, "SyntaxError: Unknown update expression: "
                                 \o node.operator))
     ELSE UpdateChange(g.I, node, leftSide, ToNumber(s2.leftValue_))

stepUpdateExpression(I) ==
  LET state == Top(I)
      node == state.node
  IN
  IF ~state.doneLeft_ THEN
    LET e == Enter(SetTop(I, "doneLeft_", TRUE), node.argument[1], state.scope)
    IN [e EXCEPT !.frame[1].components = TRUE]
  ELSE
    LET s1 == [state EXCEPT
                 !.leftSide_ = IF ~Truthy(@) THEN state.value ELSE @,
                 !.leftValue_ = IF state.doneGetter_ THEN state.value ELSE @]
        read == ~state.doneGetter_
    IN UpdateLeft(IF read THEN this_getValue(TopWith(I, s1), s1.leftSide_)
                          ELSE Ok(TopWith(I, s1), Undef),
                  state, read, s1.leftSide_)


stepArrayExpression(I) ==
  LET state == Top(I)
      elements == state.node.elements
      first == ~Truthy(state.array_)
      c == this_createArray(I)
      \* state.array_.properties.length = elements.length
      a == HostAssign(c.I.objs[c.ret.v], "length", Num(Len(elements)))
      s == IF first
             THEN Ok(SetTop([c.I EXCEPT !.objs[c.ret.v] = a.o], "array_", c.ret), Undef)
             ELSE this_setProperty(I, state.array_, ToName(Num(state.n_)), state.value, <<>>)
      n == IF first THEN state.n_ ELSE state.n_ + 1
      array_ == Top(s.I).array_
  IN IF first /\ c.thrown # "none" THEN Fail(c)
     ELSE IF s.thrown # "none" THEN Fail(s)
     ELSE IF n < Len(elements)
       THEN Enter(SetTop(s.I, "n_", n), elements[n + 1], state.scope)
       ELSE Return(SetTop(Pop(s.I), "value", array_))

\* The final loop of stepObjectExpression over the collected properties,
\* in creation order of the keys.
RECURSIVE DefineCollected(_, _, _, _)
DefineCollected(I, object_, order, properties_) ==
  IF order = <<>> THEN Ok(I, Undef)
  ELSE
    LET key == Head(order)
        kinds == properties_[key]
        s == IF Has(kinds, "get") \/ Has(kinds, "set")
               THEN this_setProperty(I, object_, key, VALUE_IN_DESCRIPTOR,
                      << [configurable |-> Bool(TRUE), enumerable |-> Bool(TRUE),
                          get |-> IF Has(kinds, "get") THEN kinds["get"] ELSE Undef,
                          set |-> IF Has(kinds, "set") THEN kinds["set"] ELSE Undef] >>)
               ELSE this_setProperty(I, object_, key, kinds["init"], <<>>)
    IN IF s.thrown # "none" THEN s
       ELSE DefineCollected(s.I, object_, Tail(order), properties_)

\* The end of stepObjectExpression: d is what the final loop returned.
ObjectDefined(d, object_) ==
  IF d.thrown # "none" THEN Fail(d)
  ELSE Return(SetTop(Pop(d.I), "value", object_))

\* stepObjectExpression with the frame brought up to date: the next
\* property, or the final loop.
ObjectProperty(J) ==
  LET state == Top(J)
      properties == state.node.properties
  IN IF state.n_ < Len(properties)
       THEN Enter(SetTop(J, "destinationName", properties[state.n_ + 1].key),
                  properties[state.n_ + 1].valueNode, state.scope)
     ELSE ObjectDefined(DefineCollected(J, state.object_, state.propertyOrder_,
                                             state.properties_),
                        state.object_)

\* stepObjectExpression, first visit: c is the object created.
ObjectCreated(c, state) ==
  IF c.thrown # "none" THEN Fail(c)
  ELSE ObjectProperty(TopWith(c.I, [state EXCEPT !.object_ = c.ret,
                                                 !.properties_ = EmptyMap]))

stepObjectExpression(I) ==
  LET state == Top(I)
      properties == state.node.properties
      propName == state.destinationName
      kinds0 == IF propName \in DOMAIN state.properties_
                  THEN state.properties_[propName] ELSE EmptyMap
  IN IF ~Truthy(state.object_)
       THEN ObjectCreated(this_createObjectProto(I, Obj(OBJECT_PROTO)), state)
     ELSE ObjectProperty(
            TopWith(I, [state EXCEPT
                          !.properties_ = Put(@, propName,
                                              Put(kinds0, properties[state.n_ + 1].kind,
                                                  state.value)),
                          !.propertyOrder_ = IF propName \in DOMAIN state.properties_
                                               THEN @ ELSE Append(@, propName),
                          !.n_ = @ + 1]))

(***************************************************************************)
(* Native functions.  A host function is named by a string; CallNative is  *)
(* nativeFunc.apply(funcThis, arguments) for the wrappers installed by     *)
(* initObject, initArray and initError and for the host's own function nf. *)
(***************************************************************************)
Arg(args, i) == IF i <= Len(args) THEN args[i] ELSE Undef

\* function Object(value)
NativeObject(I, funcThis, args) ==
  LET value == Arg(args, 1)
  IN IF IsNullish(value)
       THEN IF Top(I).isConstructor THEN Ok(I, funcThis)
            ELSE this_createObjectProto(I, Obj(OBJECT_PROTO))
     ELSE IF ~IsObj(value) THEN this_boxThis_(I, value)
     ELSE Ok(I, value)

\* function defineProperty(obj, prop, descriptor): the property map of the
\* descriptor object is handed to setProperty as the descriptor.
NativeDefineProperty(I, funcThis, args) ==
  LET obj == Arg(args, 1)
      prop == ToName(Arg(args, 2))
      descriptor == Arg(args, 3)
  IN IF ~IsObj(obj)
       THEN this_throwException(I, Obj(TYPE_ERROR), Str("Object.defineProperty called on non-object"))
     ELSE IF ~IsObj(descriptor)
       THEN this_throwException(I, Obj(TYPE_ERROR), Str("Property description must be an object"))
     ELSE
       LET o == I.objs[obj.v]
           has == prop \in DOMAIN o.properties
       IN IF has /\ o.attrs[prop].accessor /\ o.attrs[prop].hasGet
            THEN HostError(I, "Error: Placeholder getter")
          ELSE IF (~has \/ ~Truthy(o.properties[prop])) /\ o.preventExtensions
            THEN this_throwException(I, Obj(TYPE_ERROR),
                   Str("Can't define property '" \o prop \o "', object is not extensible"))
          ELSE LET s == this_setProperty(I, obj, prop, VALUE_IN_DESCRIPTOR,
                                    <<I.objs[descriptor.v].properties>>)
               IN IF s.thrown # "none" THEN s ELSE Ok(s.I, obj)

\* function preventExtensions(obj)
NativePreventExtensions(I, funcThis, args) ==
  LET obj == Arg(args, 1)
  IN IF IsObj(obj) THEN Ok([I EXCEPT !.objs[obj.v].preventExtensions = TRUE], obj)
     ELSE Ok(I, obj)

\* newArray.properties[i] = var_args[i] for i from n.
RECURSIVE AssignElements(_, _, _)
AssignElements(o, args, n) ==
  IF n >= Len(args) THEN [ok |-> TRUE, o |-> o]
  ELSE LET a == HostAssign(o, ToName(Num(n)), args[n + 1])
       IN IF ~a.ok THEN a ELSE AssignElements(a.o, args, n + 1)

\* function Array(...var_args): the slots are written directly.
NativeArray(I, funcThis, args) ==
  LET c == IF Top(I).isConstructor THEN Ok(I, funcThis) ELSE this_createArray(I)
      newArray == c.ret
      first == Arg(args, 1)
      single == Len(args) = 1 /\ first.t \in {"number", "NaN"}
      e == IF single THEN [ok |-> TRUE, o |-> c.I.objs[newArray.v]]
           ELSE this_AssignElements(c.I.objs[newArray.v], args, 0)
      a == HostAssign(e.o, "length", IF single THEN first ELSE Num(Len(args)))
  IN IF c.thrown # "none" THEN c
     ELSE IF single /\ legalArrayLength(first) = -1
       THEN this_throwException(c.I, Obj(RANGE_ERROR), Str("Invalid array length"))
     ELSE IF ~e.ok \/ ~a.ok
       THEN HostError(c.I, "TypeError: Cannot assign to read only property")
     ELSE Ok([c.I EXCEPT !.objs[newArray.v] = a.o], newArray)


\* function Error(opt_message) and the wrappers made by createErrorSubclass;
\* constructor is the function object being called.
NativeError(I, constructor, funcThis, args) ==
  LET opt_message == Arg(args, 1)
      c == IF Top(I).isConstructor THEN Ok(I, funcThis) ELSE this_createObject(I, constructor)
      s == IF Truthy(opt_message)
             THEN this_setProperty(c.I, c.ret, "message", Str(ToName(opt_message)),
                              <<NONENUMERABLE_DESCRIPTOR>>)
             ELSE Ok(c.I, Undef)
  IN IF c.thrown # "none" THEN c
     ELSE IF s.thrown # "none" THEN s
     ELSE Ok(s.I, c.ret)

\* The host's own native function (installed by the init hook): it returns
\* its argument.
NativeNf(I, funcThis, args) == Ok(I, Arg(args, 1))

\* Host native functions that return a constant: function() { return 1; }
\* and function() { return 'hi'; }.
ConstantNatives == {"returnOne", "returnHi"}
NativeConstant(I, nativeFunc) ==
  Ok(I, IF nativeFunc = "returnOne" THEN Num(1) ELSE Str("hi"))

\* func.nativeFunc.apply(funcThis, arguments)
CallNative(I, func, funcThis, args) ==
  LET nativeFunc == I.objs[func.v].nativeFunc
  IN CASE nativeFunc = "Object" -> this_NativeObject(I, funcThis, args)
       [] nativeFunc = "defineProperty" -> this_NativeDefineProperty(I, funcThis, args)
       [] nativeFunc = "preventExtensions" -> NativePreventExtensions(I, funcThis, args)
       [] nativeFunc = "Array" -> this_NativeArray(I, funcThis, args)
       [] nativeFunc \in ErrorNatives -> this_NativeError(I, func, funcThis, args)
       [] nativeFunc \in ConstantNatives -> NativeConstant(I, nativeFunc)
       [] OTHER -> NativeNf(I, funcThis, args)

\* this.setProperty(scope.object, paramName, paramValue) for each parameter.
ParamOps(target, params, args) ==
  [i \in 1..Len(params) |-> SetOp(target, params[i], Arg(args, i), <<>>)]
\* this.setProperty(argsList, i, state.arguments_[i]) for each argument.
ArgumentOps(argsList, args) ==
  [i \in 1..Len(args) |-> SetOp(argsList, ToName(Num(i - 1)), args[i], <<>>)]

\* The branch of stepCallExpression that calls an interpreted function,
\* in four parts.  Last part: `this` has been defined in the scope (t).
CallEnter(t, funcThis, funcNode, scope) ==
  IF t.thrown # "none" THEN Fail(t)
  \* state.value = undefined: default value if no explicit return.
  ELSE Enter(TopWith(t.I, [Top(t.I) EXCEPT !.funcThis_ = funcThis, !.value = Undef]),
             funcNode.block, scope)

\* Third part: the arguments list has been filled (q).
CallThis(q, state, funcNode, scope) ==
  IF q.thrown # "none" THEN Fail(q)
  ELSE LET b == IF ~q.I.scopes[scope].strict THEN this_boxThis_(q.I, state.funcThis_)
                ELSE Ok(q.I, state.funcThis_)
       IN IF b.thrown # "none" THEN Fail(b)
          ELSE CallEnter(this_setProperty(b.I, Obj(b.I.scopes[scope].object), "this", b.ret,
                                          <<READONLY_DESCRIPTOR>>),
                         b.ret, funcNode, scope)

\* Second part: the parameters have been set (p).
CallArgumentsList(p, state, func, funcNode, scope) ==
  IF p.thrown # "none" THEN Fail(p)
  ELSE LET l == this_createArray(p.I)
           target == Obj(p.I.scopes[scope].object)
       IN IF l.thrown # "none" THEN Fail(l)
          ELSE CallThis(this_SetAll(l.I, ArgumentOps(l.ret, state.arguments_)
                                      \o << SetOp(target, "arguments", l.ret, <<>>) >>
                                      \o (IF funcNode.id # ""
                                            THEN << SetOp(target, funcNode.id, func, <<>>) >>
                                            ELSE << >>)),
                        state, funcNode, scope)

\* First part: the scope is created and the parameters are set.
CallInterpreted(I, func) ==
  LET state == Top(I)
      funcNode == I.objs[func.v].node[1]
      c == this_createScope(I, funcNode.block, I.objs[func.v].parentScope)
  IN IF c.thrown # "none" THEN Fail(c)
     ELSE CallArgumentsList(this_SetAll(c.I, ParamOps(Obj(c.I.scopes[c.ret.v].object),
                                                     funcNode.params, state.arguments_)),
                            state, func, funcNode, c.ret.v)

\* The branch that calls a native function.
\* The frame with identity id, wherever it is on the stack.
FrameIndex(stack, id) ==
  IF \E i \in 1..Len(stack) : stack[i].id = id
    THEN CHOOSE i \in 1..Len(stack) : stack[i].id = id
    ELSE 0

\* A callback that clears paused_ without storing its value.
callback_DropsValue(I, id, v) == [I EXCEPT !.paused_ = FALSE]

\* callback(value) of the frame with identity id: state.value = value;
\* paused_ = false.
callback(I, id, v) ==
  LET i == FrameIndex(I.stateStack, id)
      J == IF i = 0 THEN I ELSE [I EXCEPT !.stateStack[i].value = v]
  IN [J EXCEPT !.paused_ = FALSE]

\* String(nativeRegExp), of a host regular expression or of null.
RegExpString(nativeRegExp) ==
  IF nativeRegExp.t = "RegExp" THEN RegExpText(nativeRegExp) ELSE "null"

\* nodevm = import('vm') is a promise, whatever the host: it is truthy and
\* has no runInNewContext.
nodevm == [t |-> "Promise"]

\* maybeThrowRegExp(nativeRegExp, callback).
maybeThrowRegExp(I, nativeRegExp, id) ==
  LET ok == IF I.REGEXP_MODE = Num(0) THEN FALSE      \* Fail: No RegExp support.
            ELSE IF I.REGEXP_MODE = Num(1) THEN TRUE  \* Ok: Native RegExp support.
            ELSE Truthy(nodevm)                       \* Sandboxed RegExp handling.
  IN IF ok THEN Ok(I, Undef)
     ELSE this_throwException(callback(I, id, Null), Obj(ERROR),
            Str("Regular expressions not supported: " \o RegExpString(nativeRegExp)))

\* A vmCall that throws without calling the callback.
vmCall_NoCallback(I, nativeRegExp, id) ==
  this_throwException(I, Obj(ERROR), Str("RegExp Timeout: " \o RegExpString(nativeRegExp)))

\* vmCall(code, sandbox, nativeRegExp, callback): the call of
\* nodevm['runInNewContext'], which is undefined, throws inside the try
\* block, so every call ends in the catch block.
vmCall(I, nativeRegExp, id) ==
  this_throwException(callback(I, id, Null), Obj(ERROR),
    Str("RegExp Timeout: " \o RegExpString(nativeRegExp)))

\* The characters of the strings the modelled programs search.
Chars(s) ==
  CASE s = "" -> <<>>
    [] s = "a" -> <<"a">>
    [] s = "b" -> <<"b">>
    [] s = "ab" -> <<"a", "b">>
    [] s = "ba" -> <<"b", "a">>

\* string.search(regexp), for a pattern without metacharacters: the index
\* of its first occurrence, or -1.
NativeSearch(string, regexp) ==
  LET s == Chars(string)
      q == Chars(regexp.source)
      at == {i \in 1..(Len(s) - Len(q) + 1) : SubSeq(s, i, i + Len(q) - 1) = q}
  IN IF at = {} THEN Num(-1)
     ELSE Num((CHOOSE i \in at : \A j \in at : i <= j) - 1)

\* new RegExp(pattern), for a primitive pattern.
NewRegExp(pattern) ==
  NativeRegExp(IF pattern = Undef THEN "(?:)" ELSE ToName(pattern), "", 0)

\* The wrapper of String.prototype.search(regexp, callback).
search(I, this, regexp, id) ==
  LET string == ToName(this)
      nativeRegExp == IF isa(I, regexp, REGEXP) THEN data(I.objs[regexp.v])
                      ELSE NewRegExp(regexp)
      t == this_maybeThrowRegExp(I, nativeRegExp, id)
  IN IF t.thrown # "none" THEN t
     ELSE IF I.REGEXP_MODE = Num(2)
       THEN \* Run search in vm.
            this_vmCall(t.I, nativeRegExp, id)
     ELSE IF nativeRegExp = Null
       THEN \* string.search(null) searches for /null/.
            Ok(callback(t.I, id, NativeSearch(string, NewRegExp(Null))), Undef)
     ELSE \* Run search natively.
          Ok(callback(t.I, id, NativeSearch(string, nativeRegExp)), Undef)

\* The wrapper of RegExp.prototype.exec(string, callback): regexp =
\* this.data is null, and the assignment of regexp.lastIndex throws in the
\* host before maybeThrowRegExp is reached.
exec(I, this, string, id) ==
  LET g == this_getProperty(I, this, "lastIndex")
  IN IF ~IsObj(this)
       THEN HostError(I, "TypeError: Cannot read property 'data' of " \o ToName(this))
     ELSE IF g.thrown # "none" THEN g
     ELSE HostError(g.I, "TypeError: Cannot set property 'lastIndex' of null")

\* func.asyncFunc.apply(state.funcThis_, argsWithCallback), the arguments
\* forced to the length the function declares.  The host's function af
\* keeps the callback for later.
Argument(args, i) == IF i <= Len(args) THEN args[i] ELSE Undef
CallAsync(I, func, funcThis, args) ==
  LET asyncFunc == I.objs[func.v].asyncFunc
      id == Top(I).id
      r == CASE asyncFunc = "search" -> search(I, funcThis, Argument(args, 1), id)
             [] asyncFunc = "exec" -> exec(I, funcThis, Argument(args, 1), id)
             [] OTHER -> Ok([I EXCEPT !.callbacks = Append(@, id)], Undef)
  IN IF r.thrown # "none" THEN Fail(r) ELSE Return(r.I)


CallNativeBranch(I, func) ==
  LET state == Top(I)
      b == IF ~I.scopes[state.scope].strict THEN this_boxThis_(I, state.funcThis_)
           ELSE Ok(I, state.funcThis_)
      J == SetTop(b.I, "funcThis_", b.ret)
      r == this_CallNative(J, func, b.ret, state.arguments_)
  IN IF b.thrown # "none" THEN Fail(b)
     ELSE IF r.thrown # "none" THEN Fail(r)
     ELSE Return(SetTop(r.I, "value", r.ret))

\* An async branch that pauses the interpreter after the host function has
\* returned.
CallAsyncBranch_PausesAfter(I, func) ==
  LET state == Top(I)
      b == IF ~I.scopes[state.scope].strict THEN this_boxThis_(I, state.funcThis_)
           ELSE Ok(I, state.funcThis_)
      r == this_CallAsync(SetTop(b.I, "funcThis_", b.ret), func, b.ret, state.arguments_)
  IN IF b.thrown # "none" THEN Fail(b)
     ELSE [r EXCEPT !.I.paused_ = TRUE]

\* The branch that calls an asynchronous host function: the interpreter is
\* paused first, then the host function is handed the callback, which it
\* keeps (callbacks: the frames whose callback the host holds).
CallAsyncBranch(I, func) ==
  LET state == Top(I)
      P == [I EXCEPT !.paused_ = TRUE]
      b == IF ~I.scopes[state.scope].strict THEN this_boxThis_(P, state.funcThis_)
           ELSE Ok(P, state.funcThis_)
  IN IF b.thrown # "none" THEN Fail(b)
     ELSE this_CallAsync(SetTop(b.I, "funcThis_", b.ret), func, b.ret, state.arguments_)


\* stepCallExpression, first part: the callee has been evaluated
\* (doneCallee_ = 1), determine the function.  `stop` is TRUE when the step
\* function returns or throws from inside this part (r is its result).
\* doneCallee_ is 0, 1, 2, or 3 for `true` (set by createGetter_/Setter_).
CallDetermine(I) ==
  LET state == Top(I)
      func == state.value
      s1 == [state EXCEPT !.doneCallee_ = 2]
      g == IF IsRef(func) THEN this_getValue(TopWith(I, s1), func) ELSE Ok(TopWith(I, s1), func)
      s2 == [Top(g.I) EXCEPT
               !.func_ = g.ret,
               !.directEval_ = IF IsRef(func) /\ RefBase(func) = SCOPE_REFERENCE
                                 THEN RefName(func) = "eval" ELSE @,
               !.funcThis_ = IF IsRef(func) /\ RefBase(func) # SCOPE_REFERENCE
                               THEN RefBase(func) ELSE @]
  IN IF state.doneCallee_ # 1 THEN [stop |-> FALSE, r |-> Return(I)]
     ELSE IF g.thrown # "none" THEN [stop |-> TRUE, r |-> Fail(g)]
     ELSE IF IsRef(func) /\ g.I.getterStep_
       \* Call the getter function.
       THEN [stop |-> TRUE,
             r |-> this_createGetter_(TopWith(g.I, [s2 EXCEPT !.doneCallee_ = 1]),
                                 g.ret, state.value)]
     ELSE [stop |-> FALSE,
           r |-> Return(TopWith(g.I, [s2 EXCEPT !.arguments_ = <<>>, !.n_ = 0]))]

\* Second part: evaluate the arguments, then determine `this` for `new`.
CallArguments(I) ==
  LET state == Top(I)
      node == state.node
      func == state.func_
      s1 == IF state.n_ # 0
              THEN [state EXCEPT !.arguments_ = Append(@, state.value)] ELSE state
      J == TopWith(I, s1)
      isNew == node.type = "NewExpression"
      illegal == ~IsObj(func) \/ I.objs[func.v].illegalConstructor
      proto0 == IF "prototype" \in DOMAIN I.objs[func.v].properties
                  THEN I.objs[func.v].properties["prototype"] ELSE Undef
      \* Non-object prototypes default to Object.prototype.
      proto == IF IsObj(proto0) THEN proto0 ELSE Obj(OBJECT_PROTO)
      c == IF func = Obj(ARRAY) THEN this_createArray(J) ELSE this_createObjectProto(J, proto)
  IN IF state.doneArgs_ THEN [stop |-> FALSE, r |-> Return(I)]
     ELSE IF s1.n_ < Len(node.arguments)
       THEN [stop |-> TRUE,
             r |-> Enter(SetTop(J, "n_", s1.n_ + 1), node.arguments[s1.n_ + 1], state.scope)]
     ELSE IF ~isNew
       THEN [stop |-> FALSE, r |-> Return(SetTop(J, "doneArgs_", TRUE))]
     ELSE IF illegal
       THEN [stop |-> TRUE,
             r |-> Fail(this_throwException(J, Obj(TYPE_ERROR),
                                       Str(ToName(func) \o " is not a constructor")))]
     ELSE IF c.thrown # "none" THEN [stop |-> TRUE, r |-> Fail(c)]
     ELSE [stop |-> FALSE,
           r |-> Return(TopWith(c.I, [Top(c.I) EXCEPT !.funcThis_ = c.ret,
                                                     !.isConstructor = TRUE,
                                                     !.doneArgs_ = TRUE]))]

\* Third part: execute the function, or, once it has been executed, put
\* the return value on the stack.
CallExecute(I) ==
  LET state == Top(I)
      func == state.func_
      J == SetTop(I, "doneExec_", TRUE)
      P == Pop(I)
  IN IF ~state.doneExec_
       THEN IF ~IsObj(func)
              THEN Fail(this_throwException(J, Obj(TYPE_ERROR),
                                       Str(ToName(func) \o " is not a function")))
            ELSE IF I.objs[func.v].node # <<>> THEN this_CallInterpreted(J, func)
            ELSE IF I.objs[func.v].nativeFunc # "" THEN this_CallNativeBranch(J, func)
            ELSE IF I.objs[func.v].asyncFunc # "" THEN this_CallAsyncBranch(J, func)
            ELSE Fail(this_throwException(J, Obj(TYPE_ERROR),
                                     Str(I.objs[func.v].class \o " is not callable")))
     \* Execution complete.
     ELSE IF state.isConstructor /\ ~(IsObj(state.value) \/ state.value.t = "null")
       THEN Return(SetTop(P, "value", state.funcThis_))
       ELSE Return(SetTop(P, "value", state.value))

stepCallExpression(I) ==
  LET state == Top(I)
      d == this_CallDetermine(I)
      a == this_CallArguments(d.r.I)
  IN IF state.doneCallee_ = 0
       THEN LET e == Enter(SetTop(I, "doneCallee_", 1), state.node.callee, state.scope)
            IN [e EXCEPT !.frame[1].components = TRUE]
     ELSE IF d.stop THEN d.r
     ELSE IF a.stop THEN a.r
     ELSE this_CallExecute(a.r.I)

\* stepThrowStatement: the thrown value is handed to throwException as its
\* errorClass, the message is left to the parameter default (null).
stepThrowStatement(I) ==
  LET state == Top(I)
  IN IF ~state.done_
       THEN Enter(SetTop(I, "done_", TRUE), state.node.argument, state.scope)
       ELSE Fail(this_throwException(I, state.value, Null))

\* A stepTryStatement that forgets the completion it caught and never runs
\* the handler.
stepTryStatement_SkipsHandler(I) ==
  LET state == Top(I)
      node == state.node
  IN IF ~state.doneBlock_
       THEN Enter(SetTop(I, "doneBlock_", TRUE), node.block, state.scope)
     ELSE IF ~state.doneFinalizer_ /\ node.finalizer # <<>>
       THEN Enter(SetTop(I, "doneFinalizer_", TRUE), node.finalizer[1], state.scope)
     ELSE Return(Pop(I))

stepTryStatement(I) ==
  LET state == Top(I)
      node == state.node
      cv == state.cv
  IN IF ~state.doneBlock_
       THEN Enter(SetTop(I, "doneBlock_", TRUE), node.block, state.scope)
     ELSE IF cv # <<>> /\ cv[1].type = THROW /\ ~state.doneHandler_ /\ node.handler # <<>>
       THEN LET nextState == [NewState(I, node.handler[1], state.scope) EXCEPT
                                !.throwValue = cv[1].value]
                \* This error has been handled, don't rethrow.
                I1 == TopWith(I, [state EXCEPT !.doneHandler_ = TRUE, !.cv = <<>>])
            IN WithFrame(Ok([I1 EXCEPT !.stateCounter = nextState.id], Undef),
                         <<nextState>>)
     ELSE IF ~state.doneFinalizer_ /\ node.finalizer # <<>>
       THEN Enter(SetTop(I, "doneFinalizer_", TRUE), node.finalizer[1], state.scope)
     \* There was no catch handler, or the catch/finally threw an error.
     ELSE IF cv # <<>>
       THEN Fail(this_unwind(Pop(I), cv[1].type, cv[1].value, cv[1].label))
     ELSE Return(Pop(I))

\* stepCatchClause: an empty scope, the parameter added to it by
\* setProperty, then the body in that scope.
CatchEnter(s, block, scope) ==
  IF s.thrown # "none" THEN Fail(s) ELSE Enter(s.I, block, scope)

CatchBind(sc, name, throwValue, block) ==
  IF sc.thrown # "none" THEN Fail(sc)
  ELSE CatchEnter(this_setProperty(sc.I, Obj(sc.I.scopes[sc.ret.v].object), name,
                                   throwValue, <<>>),
                  block, sc.ret.v)

stepCatchClause(I) ==
  LET state == Top(I)
      node == state.node
  IN IF ~state.done_
       THEN CatchBind(this_createSpecialScope(SetTop(I, "done_", TRUE), state.scope, Undef),
                      node.param, state.throwValue, node.block)
       ELSE Return(Pop(I))

\* The `delete` arm of stepUnaryExpression, on the stack J from which the
\* frame `state` has been popped: ret is the result.  A scope reference is
\* redirected to state.scope, a Scope, which has no `properties`: like a
\* primitive base it makes the host delete throw, which is caught.
UnaryDelete(J, state, value) ==
  IF ~IsRef(value) THEN Ok(J, Bool(TRUE))
  ELSE
    LET obj == RefBase(value)
        name == RefName(value)
        d == IF IsObj(obj) THEN HostDelete(J.objs[obj.v], name)
                           ELSE [ok |-> FALSE, o |-> <<>>]
    IN IF d.ok THEN Ok([J EXCEPT !.objs[obj.v] = d.o], Bool(TRUE))
       ELSE IF J.scopes[state.scope].strict
         THEN this_throwException(J, Obj(TYPE_ERROR),
                Str("Cannot delete property '" \o name \o "' of '" \o ToName(obj) \o "'"))
       ELSE Ok(J, Bool(FALSE))

\* typeof value, with 'function' for interpreted functions.
TypeOf(I, value) ==
  CASE IsObj(value) /\ I.objs[value.v].class = "Function" -> "function"
    [] value.t \in {"object", "null"} -> "object"
    [] value.t \in {"number", "NaN"} -> "number"
    [] OTHER -> value.t

\* The value of a unary operator other than delete; <<>> for an operator
\* that is none of those of the language.
UnaryValue(I, operator, value) ==
  LET n == ToNumber(value)
  IN CASE operator = "-" -> <<IF n = NaN THEN NaN ELSE Num(0 - n.v)>>
       [] operator = "+" -> <<n>>
       [] operator = "!" -> <<Bool(~Truthy(value))>>
       [] operator = "~" -> <<IF n = NaN THEN Num(0 - 1) ELSE Num(0 - n.v - 1)>>
       [] operator = "typeof" -> <<Str(TypeOf(I, value))>>
       [] operator = "void" -> <<Undef>>
       [] OTHER -> <<>>

\* stack[stack.length - 1].value = value
UnaryResult(r) ==
  IF r.thrown # "none" THEN Fail(r) ELSE Return(SetTop(r.I, "value", r.ret))

stepUnaryExpression(I) ==
  LET state == Top(I)
      node == state.node
      nextState == [NewState(I, node.argument, state.scope) EXCEPT
                      !.components = (node.operator = "delete")]
      J == Pop(I)
      u == UnaryValue(J, node.operator, state.value)
  IN IF ~state.done_
       THEN WithFrame(Ok([SetTop(I, "done_", TRUE) EXCEPT !.stateCounter = nextState.id],
                         Undef),
                      <<nextState>>)
     ELSE IF node.operator = "delete"
       THEN UnaryResult(this_UnaryDelete(J, state, state.value))
     ELSE IF u = <<>>
       THEN Fail(HostError(J, "SyntaxError: Unknown unary operator: " \o node.operator))
     ELSE Return(SetTop(J, "value", u[1]))

\* Host Object.getOwnPropertyNames(o.properties): the keys that are array
\* indices in ascending order, then the other keys in creation order.
OwnPropertyNames(o) ==
  SelectSeq(IndexNames, LAMBDA k : k \in DOMAIN o.properties)
    \o SelectSeq(o.order, LAMBDA k : legalArrayIndex(k) = -1)

\* Host Object.getOwnPropertyNames of a primitive: the indices of a string
\* and its `length`, nothing for a number or a boolean.
PrimitiveNames(x) ==
  IF x.t = "string" THEN SubSeq(IndexNames, 1, Len(x.s)) \o <<"length">> ELSE <<>>

\* Step three of stepForInStatement: the search for the next name, from
\* the frame fields object_, props_ (here the list itself) and visited_.
\* The result has found = FALSE when the chain is exhausted, else the name
\* and the new values of the three fields.
RECURSIVE ForInScan(_, _, _, _), ForInSearch(_, _, _, _)
ForInUp(I, object, visited) ==
  IF getPrototype(I, object) = 0
    THEN [found |-> FALSE, name |-> "", object_ |-> Null, props_ |-> <<>>,
          visited_ |-> visited]
    ELSE ForInSearch(I, Obj(getPrototype(I, object)), <<>>, visited)

ForInScan(I, object, props, visited) ==
  IF props = <<>> THEN ForInUp(I, object, visited)  \* end of this object's properties
  ELSE
    LET prop == Head(props)
        found == [found |-> TRUE, name |-> prop, object_ |-> object,
                  props_ |-> <<Tail(props)>>, visited_ |-> visited \cup {prop}]
    IN IF IsObj(object)
         THEN IF prop \notin DOMAIN I.objs[object.v].properties
                THEN ForInScan(I, object, Tail(props), visited)  \* deleted in the loop
              ELSE IF prop \in visited
                THEN ForInScan(I, object, Tail(props), visited)  \* seen on a child
              ELSE IF ~I.objs[object.v].attrs[prop].enumerable
                THEN ForInScan(I, object, Tail(props), visited \cup {prop})
              ELSE found
         ELSE IF prop = "length"
                THEN ForInScan(I, object, Tail(props), visited \cup {prop})
              ELSE found

ForInSearch(I, object, props_, visited) ==
  IF IsObj(object)
    THEN ForInScan(I, object,
                   IF props_ = <<>> THEN OwnPropertyNames(I.objs[object.v]) ELSE props_[1],
                   visited)
  ELSE IF ~IsNullish(object)
    THEN ForInScan(I, object,
                   IF props_ = <<>> THEN PrimitiveNames(object) ELSE props_[1], visited)
  ELSE ForInUp(I, object, visited)

\* Steps five and six: s is what this.setValue(state.variable_, name)
\* returned.
ForInBody(s, variable, name) ==
  IF s.thrown # "none" THEN Fail(s)
  ELSE IF Truthy(s.ret) THEN this_createSetter_(s.I, s.ret, variable, name)
  ELSE Enter(TopWith(s.I, [Top(s.I) EXCEPT !.name_ = <<>>, !.doneVariable_ = FALSE,
                                           !.doneSetter_ = FALSE]),
             Top(s.I).node.block, Top(s.I).scope)

\* Steps four to six, on a frame whose name_ is set.
ForInVariable(I) ==
  LET state == Top(I)
      left == state.node.left
      declared == left.type = "VariableDeclaration"
      nextState == [NewState(I, left, state.scope) EXCEPT !.components = TRUE]
      s1 == IF state.doneVariable_ THEN state
            ELSE [state EXCEPT !.doneVariable_ = TRUE,
                               !.variable_ = IF declared
                                               THEN Ref(SCOPE_REFERENCE, left.declarations[1].name)
                                               ELSE Null]
      s2 == IF Truthy(s1.variable_) THEN s1 ELSE [s1 EXCEPT !.variable_ = state.value]
      s3 == [s2 EXCEPT !.doneSetter_ = TRUE]
  IN IF ~state.doneVariable_ /\ ~declared
       \* Arbitrary left side: for (foo().bar in y)
       THEN WithFrame(Ok([TopWith(I, s1) EXCEPT !.stateCounter = nextState.id], Undef),
                      <<nextState>>)
     ELSE IF ~s2.doneSetter_
       THEN ForInBody(this_setValue(TopWith(I, s3), s3.variable_, Str(s3.name_[1])),
                      s3.variable_, Str(s3.name_[1]))
     ELSE ForInBody(Ok(TopWith(I, s2), Undef), s2.variable_, Str(s2.name_[1]))

\* A step three that does not skip the names it has handed out on a nearer
\* object.
ForInName_ForgetsVisited(I) ==
  LET state == Top(I)
      r == ForInSearch(I, state.object_, state.props_, {})
  IN IF state.name_ # <<>> THEN this_ForInVariable(I)
     ELSE IF ~r.found THEN Return(Pop(I))
     ELSE this_ForInVariable(
            [TopWith(I, [state EXCEPT !.object_ = r.object_, !.props_ = r.props_,
                                      !.visited_ = r.visited_, !.name_ = <<r.name>>])
               EXCEPT !.enumerated = Append(@, [loop |-> state.id, object |-> r.object_,
                                                 name |-> r.name])])

\* Step three: find the property name for this iteration (enumerated: the
\* history of the names found, with the loop and the object they are from).
ForInName(I) ==
  LET state == Top(I)
      r == ForInSearch(I, state.object_, state.props_, state.visited_)
  IN IF state.name_ # <<>> THEN this_ForInVariable(I)
     \* Done, exit loop.
     ELSE IF ~r.found THEN Return(Pop(I))
     ELSE this_ForInVariable(
            [TopWith(I, [state EXCEPT !.object_ = r.object_, !.props_ = r.props_,
                                      !.visited_ = r.visited_, !.name_ = <<r.name>>])
               EXCEPT !.enumerated = Append(@, [loop |-> state.id, object |-> r.object_,
                                                 name |-> r.name])])

\* The objects of the prototype chain of a value, nearest first.
RECURSIVE ProtoChain(_, _)
ProtoChain(I, x) ==
  (IF IsObj(x) THEN <<x.v>> ELSE <<>>)
    \o (IF getPrototype(I, x) = 0 THEN <<>> ELSE ProtoChain(I, Obj(getPrototype(I, x))))

\* The first iteration's set-up (loops: the history of the loops begun, with
\* the object iterated over, its prototype chain and the chain's own keys).
ForInBegin(I, state) ==
  [TopWith(I, [state EXCEPT !.isLoop = TRUE, !.object_ = state.value, !.visited_ = {}])
     EXCEPT !.loops = Append(@, [loop |-> state.id, object |-> state.value,
                                 chain |-> ProtoChain(I, state.value),
                                 own |-> [n \in {ProtoChain(I, state.value)[i] :
                                                    i \in 1..Len(ProtoChain(I, state.value))} |->
                                            DOMAIN I.objs[n].properties]])]

\* Steps one and two (the initializer, the object), then the first
\* iteration's set-up.
stepForInStatement(I) ==
  LET state == Top(I)
      node == state.node
      init == /\ ~state.doneInit_
              /\ node.left.type = "VariableDeclaration"
              /\ node.left.declarations[1].init # <<>>
      s1 == [state EXCEPT !.doneInit_ = TRUE]
      s2 == [s1 EXCEPT !.doneObject_ = TRUE,
                       !.variable_ = IF Truthy(@) THEN @ ELSE state.value]
  IN IF init /\ I.scopes[state.scope].strict
       THEN Fail(this_throwException(TopWith(I, s1), Obj(SYNTAX_ERROR),
              Str("for-in loop variable declaration may not have an initializer.")))
     \* Variable initialization: for (var x = 4 in y)
     ELSE IF init THEN Enter(TopWith(I, s1), node.left, state.scope)
     ELSE IF ~state.doneObject_ THEN Enter(TopWith(I, s2), node.right, state.scope)
     ELSE IF ~state.isLoop THEN this_ForInName(ForInBegin(I, s1))
     ELSE this_ForInName(TopWith(I, s1))

stepBreakStatement(I) ==
  LET label == Top(I).node.label
  IN Fail(this_unwind(I, BREAK, Undef, IF label = <<>> THEN "" ELSE label[1]))

stepContinueStatement(I) ==
  LET label == Top(I).node.label
  IN Fail(this_unwind(I, CONTINUE, Undef, IF label = <<>> THEN "" ELSE label[1]))

\* No need to hit this node again on the way back up the stack: the frame
\* is popped, and the frame of the body carries the labels.
stepLabeledStatement(I) ==
  LET state == Top(I)
      P == Pop(I)
      nextState == [NewState(P, state.node.block, state.scope) EXCEPT
                      !.labels = Append(state.labels, state.node.label)]
  IN WithFrame(Ok([P EXCEPT !.stateCounter = nextState.id], Undef), <<nextState>>)

\* stepDoWhileStatement (no step function is registered for WhileStatement).
stepDoWhileStatement(I) ==
  LET state == Top(I)
      node == state.node
      \* First iteration of do/while executes without checking test.
      first == node.type = "DoWhileStatement" /\ state.test_ = Undef
      s1 == IF first THEN [state EXCEPT !.value = Bool(TRUE), !.test_ = Bool(TRUE)]
                     ELSE state
  IN IF ~Truthy(s1.test_)
       THEN Enter(TopWith(I, [s1 EXCEPT !.test_ = Bool(TRUE)]), node.test, state.scope)
     \* Done, exit loop.
     ELSE IF ~Truthy(s1.value) THEN Return(Pop(I))
     \* Execute the body.
     ELSE Enter(TopWith(I, [s1 EXCEPT !.test_ = Bool(FALSE), !.isLoop = TRUE]),
                node.block, state.scope)

\* stepForStatement: mode_ 0 runs init, 1 the test, 2 the body (or leaves
\* the loop), 3 the update, after which the test is next.
stepForStatement(I) ==
  LET state == Top(I)
      node == state.node
      mode == state.mode_
  IN IF mode = 0
       THEN IF node.init # <<>>
              THEN Enter(SetTop(I, "mode_", 1), node.init[1], state.scope)
              ELSE Return(SetTop(I, "mode_", 1))
     ELSE IF mode = 1
       THEN IF node.test # <<>>
              THEN Enter(SetTop(I, "mode_", 2), node.test[1], state.scope)
              ELSE Return(SetTop(I, "mode_", 2))
     ELSE IF mode = 2
       THEN IF node.test # <<>> /\ ~Truthy(state.value)
              \* Done, exit loop.
              THEN Return(Pop(I))
              \* Execute the body.
              ELSE Enter(TopWith(I, [state EXCEPT !.mode_ = 3, !.isLoop = TRUE]),
                         node.block, state.scope)
     ELSE IF mode = 3
       THEN IF node.update # <<>>
              THEN Enter(SetTop(I, "mode_", 1), node.update[1], state.scope)
              ELSE Return(SetTop(I, "mode_", 1))
     ELSE Return(I)

\* For the history: the switch statement enters `node`.
Switched(I, node) == [I EXCEPT !.switched = Append(@, node)]

\* A SwitchCases that does not bypass the default clause while it looks
\* for a match.
RECURSIVE SwitchCases_EntersDefault(_, _)
SwitchCases_EntersDefault(I, state) ==
  LET node == state.node
      index == state.index_
      has == index + 1 <= Len(node.cases)
      switchCase == node.cases[index + 1]
      equal == state.matched_ \/ switchCase.test = <<>>
               \/ StrictEquals(state.value, state.switchValue_)
  IN IF has
       THEN IF ~state.matched_ /\ ~state.tested_ /\ switchCase.test # <<>>
              THEN Enter(Switched(TopWith(I, [state EXCEPT !.tested_ = TRUE]),
                                  switchCase.test[1]),
                         switchCase.test[1], state.scope)
            ELSE IF equal /\ state.n_ + 1 <= Len(switchCase.consequent)
              THEN Enter(Switched(TopWith(I, [state EXCEPT !.matched_ = TRUE,
                                                           !.isSwitch = TRUE, !.n_ = @ + 1]),
                                  switchCase.consequent[state.n_ + 1]),
                         switchCase.consequent[state.n_ + 1], state.scope)
            ELSE SwitchCases_EntersDefault(I, [state EXCEPT !.matched_ = equal,
                                    !.tested_ = FALSE, !.n_ = 0, !.index_ = index + 1])
     ELSE Return(Pop(I))

\* The for (;;) loop of stepSwitchStatement, on the frame `state` as the
\* loop has changed it so far.
RECURSIVE SwitchCases(_, _)
SwitchCases(I, state) ==
  LET node == state.node
      index == state.index_
      has == index + 1 <= Len(node.cases)
      switchCase == node.cases[index + 1]
      equal == state.matched_ \/ StrictEquals(state.value, state.switchValue_)
  IN \* Bypass (but store) the default case, and get back to it later.
     IF ~state.matched_ /\ has /\ switchCase.test = <<>>
       THEN SwitchCases(I, [state EXCEPT !.defaultCase_ = index, !.index_ = index + 1])
     \* Ran through all cases, no match.  Jump to the default.
     ELSE IF ~has /\ ~state.matched_ /\ state.defaultCase_ # -1
       THEN SwitchCases(I, [state EXCEPT !.matched_ = TRUE,
                                         !.index_ = state.defaultCase_])
     ELSE IF has
       THEN IF ~state.matched_ /\ ~state.tested_ /\ switchCase.test # <<>>
              THEN Enter(Switched(TopWith(I, [state EXCEPT !.tested_ = TRUE]),
                                  switchCase.test[1]),
                         switchCase.test[1], state.scope)
            ELSE IF equal /\ state.n_ + 1 <= Len(switchCase.consequent)
              THEN Enter(Switched(TopWith(I, [state EXCEPT !.matched_ = TRUE,
                                                           !.isSwitch = TRUE, !.n_ = @ + 1]),
                                  switchCase.consequent[state.n_ + 1]),
                         switchCase.consequent[state.n_ + 1], state.scope)
            \* Move on to next case.
            ELSE SwitchCases(I, [state EXCEPT !.matched_ = equal, !.tested_ = FALSE,
                                              !.n_ = 0, !.index_ = index + 1])
     ELSE Return(Pop(I))

stepSwitchStatement(I) ==
  LET state == Top(I)
  IN IF ~Truthy(state.test_)
       THEN Enter(SetTop(I, "test_", Num(1)), state.node.discriminant, state.scope)
     ELSE IF state.test_ = Num(1)
       \* Preserve switch value between case tests.
       THEN this_SwitchCases(I, [state EXCEPT !.test_ = Num(2),
                                              !.switchValue_ = state.value,
                                              !.defaultCase_ = -1])
     ELSE this_SwitchCases(I, state)

stepNewExpression(I) == this_stepCallExpression(I)

\* this.stepFunctions_[node.type](stack, state, node)
StepFunction(I) ==
  LET type == Top(I).node.type
  IN CASE type = "Program" -> this_stepProgram(I)
       [] type = "BlockStatement" -> stepBlockStatement(I)
       [] type = "ExpressionStatement" -> stepExpressionStatement(I)
       [] type = "ConditionalExpression" -> this_stepConditionalExpression(I)
       [] type = "IfStatement" -> stepIfStatement(I)
       [] type = "FunctionDeclaration" -> stepFunctionDeclaration(I)
       [] type = "FunctionExpression" -> stepFunctionExpression(I)
       [] type = "Literal" -> stepLiteral(I)
       [] type = "Identifier" -> this_stepIdentifier(I)
       [] type = "ThisExpression" -> stepThisExpression(I)
       [] type = "ReturnStatement" -> stepReturnStatement(I)
       [] type = "VariableDeclaration" -> this_stepVariableDeclaration(I)
       [] type = "WithStatement" -> this_stepWithStatement(I)
       [] type = "BinaryExpression" -> this_stepBinaryExpression(I)
       [] type = "LogicalExpression" -> this_stepLogicalExpression(I)
       [] type = "MemberExpression" -> this_stepMemberExpression(I)
       [] type = "AssignmentExpression" -> this_stepAssignmentExpression(I)
       [] type = "UpdateExpression" -> this_stepUpdateExpression(I)
       [] type = "ArrayExpression" -> this_stepArrayExpression(I)
       [] type = "ObjectExpression" -> this_stepObjectExpression(I)
       [] type = "CallExpression" -> this_stepCallExpression(I)
       [] type = "NewExpression" -> stepNewExpression(I)
       [] type = "SwitchStatement" -> stepSwitchStatement(I)
       [] type = "DoWhileStatement" -> this_stepDoWhileStatement(I)
       [] type = "LabeledStatement" -> stepLabeledStatement(I)
       [] type = "ContinueStatement" -> stepContinueStatement(I)
       [] type = "BreakStatement" -> stepBreakStatement(I)
       [] type = "ForInStatement" -> this_stepForInStatement(I)
       [] type = "UnaryExpression" -> this_stepUnaryExpression(I)
       [] type = "CatchClause" -> this_stepCatchClause(I)
       [] type = "TryStatement" -> this_stepTryStatement(I)
       [] type = "ThrowStatement" -> this_stepThrowStatement(I)
       [] type = "ForStatement" -> stepForStatement(I)
       \* no method of the class is named step<type>: the call of undefined
       [] OTHER -> Fail(HostError(I, "TypeError: this.stepFunctions_[type] is not a function"))


(***************************************************************************)
(* step() and run().                                                       *)
(***************************************************************************)
\* Result of step(): `result` is the boolean returned (when thrown is
\* "none"), `pre` the interpreter before the last step function ran.
StepResult(I, result, pre) ==
  [I |-> I, result |-> result, thrown |-> "none", msg |-> "", pre |-> pre]
StepThrows(I, msg, pre) ==
  [I |-> I, result |-> FALSE, thrown |-> "host", msg |-> msg, pre |-> pre]

\* step() finds no more instructions: the stack is empty, or its top is the
\* Program frame and that frame is done.
Terminated(I) ==
  \/ Len(I.stateStack) = 0
  \/ Top(I).node.type = "Program" /\ Top(I).done

\* The do-while loop of step().  `budget` is the number of step functions
\* the wall clock lets this call run: the loop goes on while the node just
\* stepped has no location and startTime + POLYFILL_TIMEOUT > Date.now().
\* With POLYFILL_TIMEOUT left unset the comparison is false and budget is 1.
RECURSIVE stepLoop(_, _, _)

\* The body of the loop from the call of the step function on, and the
\* loop condition.
stepBody(I, budget, pre) ==
  LET node == Top(I).node
      r == this_stepFunctions_(I)
      \* if (nextState) stack.push(nextState)
      J == IF r.thrown = "none" /\ r.frame # <<>>
             THEN [r.I EXCEPT !.stateStack = Append(@, r.frame[1])]
             ELSE r.I
  IN IF r.thrown = "host" THEN StepThrows(r.I, r.msg, I)
     ELSE IF J.getterStep_
       THEN StepThrows(J, "Error: Getter not supported in this context", I)
     ELSE IF J.setterStep_
       THEN StepThrows(J, "Error: Setter not supported in this context", I)
     ELSE IF ~node.end /\ budget > 1 THEN stepLoop(J, budget - 1, I)
     ELSE StepResult(J, TRUE, I)

\* A step() that discards the Program frame once it is done.
stepLoop_PopsDone(I, budget, pre) ==
  IF Len(I.stateStack) = 0 THEN StepResult(I, FALSE, pre)
  ELSE IF Terminated(I) THEN StepResult(Pop(I), FALSE, pre)
  ELSE IF I.paused_ THEN StepResult(I, TRUE, pre)
  ELSE this_stepBody(I, budget, pre)

\* A step() that does not look at paused_.
stepLoop_IgnoresPause(I, budget, pre) ==
  IF Terminated(I) THEN StepResult(I, FALSE, pre)
  ELSE this_stepBody(I, budget, pre)

stepLoop(I, budget, pre) ==
  IF Terminated(I) THEN StepResult(I, FALSE, pre)
  ELSE IF I.paused_ THEN StepResult(I, TRUE, pre)
  ELSE this_stepBody(I, budget, pre)

step(I, budget) == stepLoop(I, budget, I)

\* run(): while (!this.paused_ && this.step()) {}  return this.paused_;
\* A run in progress is a record: `finished` tells that the loop has ended
\* (then `result` is the value returned, `msg` the error thrown by step(),
\* if any), `pre` is the interpreter before the last step function ran.
RunState(I, finished, result, msg, pre) ==
  [I |-> I, finished |-> finished, result |-> result,
   thrown |-> IF msg = "" THEN "none" ELSE "host", msg |-> msg, pre |-> pre]

\* One evaluation of the loop condition, and of the (empty) body.
runOnce(R, budget) ==
  IF R.I.paused_ THEN RunState(R.I, TRUE, R.I.paused_, "", R.pre)
  ELSE LET s == this_step(R.I, budget)
       IN IF s.thrown # "none" THEN RunState(s.I, TRUE, FALSE, s.msg, s.pre)
          ELSE IF ~s.result THEN RunState(s.I, TRUE, s.I.paused_, "", s.pre)
          ELSE RunState(s.I, FALSE, FALSE, "", s.pre)

\* At most n evaluations of the loop condition (the first half of them,
\* then the rest).
RECURSIVE runLoop(_, _, _)
runRest(R, budget, n) == runLoop(R, budget, n)
runLoop(R, budget, n) ==
  IF R.finished \/ n = 0 THEN R
  ELSE IF n = 1 THEN this_runOnce(R, budget)
  ELSE runRest(runLoop(R, budget, n \div 2), budget, n - (n \div 2))

\* A run() that returns whether the program has ended instead of paused_.
run_ReturnsEnded(I, budget) ==
  LET R == this_runLoop(RunState(I, FALSE, FALSE, "", I), budget, MaxRunSteps)
  IN [I |-> R.I, result |-> Terminated(R.I), thrown |-> R.thrown, msg |-> R.msg,
      exhausted |-> ~R.finished, pre |-> R.pre]

\* run() followed for at most MaxRunSteps calls of step(); `exhausted`
\* tells that the loop had not ended by then.
run(I, budget) ==
  LET R == this_runLoop(RunState(I, FALSE, FALSE, "", I), budget, MaxRunSteps)
  IN [I |-> R.I, result |-> R.result, thrown |-> R.thrown, msg |-> R.msg,
      exhausted |-> ~R.finished, pre |-> R.pre]

(***************************************************************************)
(* Construction: new Interpreter(code, initFunc).                          *)
(***************************************************************************)
\* A node without location (polyfill code, see stripLocations_).
P(node) == [node EXCEPT !.end = FALSE]
Id(name) == Identifier(FALSE, name)
Dot(object, name) == MemberExpression(FALSE, object, Id(name), FALSE)

\* if ('<f>' in d1) d2.<f> = d1.<f>;
CopyField(f) ==
  IfStatement(FALSE,
    BinaryExpression(FALSE, "in", Literal(FALSE, Str(f)), Id("d1")),
    ExpressionStatement(FALSE,
      AssignmentExpression(FALSE, "=", Dot(Id("d2"), f), Dot(Id("d1"), f))),
    <<>>)

\* The polyfill that flattens the descriptor handed to Object.defineProperty:
\*   (function() {
\*     var defineProperty_ = Object.defineProperty;
\*     Object.defineProperty = function defineProperty(obj, prop, d1) {
\*       var d2 = {};
\*       if ('configurable' in d1) d2.configurable = d1.configurable;  ...
\*       return defineProperty_(obj, prop, d2);
\*     };
\*   })();
DefinePropertyPolyfill ==
  FunctionExpression(FALSE, "defineProperty", <<"obj", "prop", "d1">>,
    BlockStatement(FALSE, <<
      VariableDeclaration(FALSE, <<VariableDeclarator("d2", <<ObjectExpression(FALSE, <<>>)>>)>>),
      CopyField("configurable"), CopyField("enumerable"), CopyField("writable"),
      CopyField("value"), CopyField("get"), CopyField("set"),
      ReturnStatement(FALSE,
        <<CallExpression(FALSE, Id("defineProperty_"), <<Id("obj"), Id("prop"), Id("d2")>>)>>)
    >>))

\* The polyfill of initRegExp:
\*   Object.defineProperty(RegExp.prototype, 'test',
\*     {configurable: true, writable: true, value:
\*       function test(str) { return String(str).search(this) !== -1 }
\*     });
TestPolyfill ==
  ExpressionStatement(FALSE,
    CallExpression(FALSE, Dot(Id("Object"), "defineProperty"),
      <<Dot(Id("RegExp"), "prototype"), Literal(FALSE, Str("test")),
        ObjectExpression(FALSE, <<
          Property("configurable", "init", Literal(FALSE, Bool(TRUE))),
          Property("writable", "init", Literal(FALSE, Bool(TRUE))),
          Property("value", "init",
            FunctionExpression(FALSE, "test", <<"str">>,
              BlockStatement(FALSE, <<
                ReturnStatement(FALSE,
                  <<BinaryExpression(FALSE, "!==",
                      CallExpression(FALSE,
                        MemberExpression(FALSE,
                          CallExpression(FALSE, Id("String"), <<Id("str")>>),
                          Id("search"), FALSE),
                        <<ThisExpression(FALSE)>>),
                      UnaryExpression(FALSE, "-", Literal(FALSE, Num(1))))>>)
              >>)))
        >>)>>))

Polyfills ==
  Program(FALSE, <<
    ExpressionStatement(FALSE,
      CallExpression(FALSE,
        FunctionExpression(FALSE, "", <<>>,
          BlockStatement(FALSE, <<
            VariableDeclaration(FALSE,
              <<VariableDeclarator("defineProperty_", <<Dot(Id("Object"), "defineProperty")>>)>>),
            ExpressionStatement(FALSE,
              AssignmentExpression(FALSE, "=", Dot(Id("Object"), "defineProperty"),
                                   DefinePropertyPolyfill))
          >>)),
        <<>>)),
    TestPolyfill
  >>)

\* The interpreter before initGlobal: no stack yet, an empty heap.
Blank ==
  [stateStack |-> <<>>, objs |-> <<>>, scopes |-> <<>>, paused_ |-> FALSE,
   value |-> Undef, getterStep_ |-> FALSE, setterStep_ |-> FALSE,
   stateCounter |-> 0, callbacks |-> <<>>,
   \* the host's init hook, as the native value it hands to the program
   initFunc_ |-> NoNative,
   \* the regular-expression mode, a property the host may set
   REGEXP_MODE |-> Undef,
   \* history: accessor signals raised by getProperty, getter frames
   \* synthesized, values of the completed expression statements
   getterSignals |-> 0, getterFrames |-> 0, completed |-> <<>>, enumerated |-> <<>>, loops |-> <<>>,
   \* history: the invocations of the init hook
   hooks |-> <<>>,
   \* history: the nodes that switch statements have entered
   switched |-> <<>>,
   \* history: `value` was reset after the last of them
   valueReset |-> FALSE,
   \* history: the frames whose callback the host has invoked
   fired |-> <<>>]

\* new InterpreterObject(proto), outside createObjectProto.
Allocate(I, proto) == [I EXCEPT !.objs = Append(@, InterpreterObject(proto))]

\* setProperty(obj, name, value, descriptor) during construction.
Define(I, obj, name, value, d) == this_setProperty(I, obj, name, value, <<d>>).I

\* createNativeFunction followed by setProperty(owner, name, func, d).
InstallNative(I, owner, name, nativeFunc, argumentLength, isConstructor) ==
  LET f == this_createNativeFunction(I, nativeFunc, argumentLength, isConstructor)
  IN Define(f.I, owner, name, f.ret, NONENUMERABLE_DESCRIPTOR)

\* nativeToPseudo(nativeObj), for JSON-style values and regular
\* expressions (the branches for dates and functions are not modelled).
RECURSIVE nativeToPseudo(_, _), ArrayToPseudo(_, _, _), ObjectToPseudo(_, _, _)
\* this.setProperty(pseudo, name, this.nativeToPseudo(...)): c is what
\* nativeToPseudo returned.
SetConverted(c, pseudo, name) ==
  Ok(this_setProperty(c.I, pseudo, name, c.ret, <<>>).I, pseudo)

\* this.populateRegExp(pseudoRegexp, nativeObj); return pseudoRegexp;
Populated(p, pseudoRegexp) == IF p.thrown # "none" THEN p ELSE Ok(p.I, pseudoRegexp)
RegExpToPseudo(c, nativeObj) == Populated(populateRegExp(c.I, c.ret, nativeObj), c.ret)

\* for (let i = 0; i < nativeObj.length; i++) if (i in nativeObj) ...
ArrayToPseudo(a, nativeObj, i) ==
  IF i >= nativeObj.length THEN a
  ELSE IF i \notin DOMAIN nativeObj.elems THEN this_ArrayToPseudo(a, nativeObj, i + 1)
  ELSE this_ArrayToPseudo(SetConverted(this_nativeToPseudo(a.I, nativeObj.elems[i]),
                                       a.ret, ToName(Num(i))),
                          nativeObj, i + 1)

\* for (const key in nativeObj) ...
ObjectToPseudo(o, nativeObj, keys) ==
  IF keys = <<>> THEN o
  ELSE this_ObjectToPseudo(SetConverted(this_nativeToPseudo(o.I, nativeObj.props[Head(keys)]),
                                        o.ret, Head(keys)),
                           nativeObj, Tail(keys))

nativeToPseudo(I, nativeObj) ==
  CASE nativeObj.t = "RegExp" ->
         RegExpToPseudo(this_createObjectProto(I, Obj(REGEXP_PROTO)), nativeObj)
    [] nativeObj.t = "Array" -> this_ArrayToPseudo(this_createArray(I), nativeObj, 0)
    [] nativeObj.t = "Object" ->
         this_ObjectToPseudo(this_createObjectProto(I, Obj(OBJECT_PROTO)), nativeObj,
                             nativeObj.order)
    [] OTHER -> Ok(I, nativeObj)

\* What pseudoToNative gives when the host throws.
NativeThrow(msg) == [t |-> "throw", msg |-> msg]

\* The host's enumeration of pseudoObj.properties: the enumerable keys,
\* array indices first.
EnumerableNames(o) ==
  SelectSeq(SelectSeq(IndexNames, LAMBDA k : k \in DOMAIN o.properties)
              \o SelectSeq(o.order, LAMBDA k : legalArrayIndex(k) = -1),
            LAMBDA k : o.attrs[k].enumerable)

\* nativeObj[i] = val on a native array; defineProperty(nativeObj, key,
\* {value: val, ...}) on a native object.
WithElement(nativeObj, i, val) ==
  IF val.t = "throw" THEN val
  ELSE [nativeObj EXCEPT !.length = IF i < @ THEN @ ELSE i + 1,
                         !.elems = [j \in (DOMAIN @) \cup {i} |->
                                      IF j = i THEN val ELSE @[j]]]
WithKey(nativeObj, key, val) ==
  IF val.t = "throw" THEN val
  ELSE [nativeObj EXCEPT !.order = IF key \in DOMAIN nativeObj.props THEN @
                                   ELSE Append(@, key),
                         !.props = Put(@, key, val)]

\* pseudoToNative(pseudoObj, opt_cycles); cycles is cycles.pseudo, and the
\* native object of an entry of it is given by the entry's index (the
\* branches for regular expressions and dates are not modelled).
RECURSIVE pseudoToNative(_, _, _), ElementsToNative(_, _, _, _, _, _),
          PropertiesToNative(_, _, _, _, _)
\* A pseudoToNative that converts the elements of an array only.
pseudoToNative_ArraysOnly(I, pseudoObj, cycles) ==
  IF pseudoObj.t \in {"undefined", "null", "number", "NaN", "string", "boolean"}
    THEN pseudoObj
  ELSE IF ~IsObj(pseudoObj) THEN NativeThrow("Error: Object is not pseudo")
  ELSE IF isa(I, pseudoObj, ARRAY)
    THEN ElementsToNative(I, pseudoObj, Append(cycles, pseudoObj.v),
                          this_getProperty(I, pseudoObj, "length").ret.v, 0,
                          NativeArrayOf(<<>>))
  ELSE NativeObjectOf(<<>>, EmptyMap)

\* A pseudoToNative that takes every revisit for a revisit of the object
\* the conversion started from.
pseudoToNative_ReusesFirst(I, pseudoObj, cycles) ==
  IF pseudoObj.t \in {"undefined", "null", "number", "NaN", "string", "boolean"}
    THEN pseudoObj
  ELSE IF ~IsObj(pseudoObj) THEN NativeThrow("Error: Object is not pseudo")
  ELSE IF \E i \in 1..Len(cycles) : cycles[i] = pseudoObj.v
    THEN [t |-> "cycle", v |-> 1]
  ELSE IF isa(I, pseudoObj, ARRAY)
    THEN ElementsToNative(I, pseudoObj, Append(cycles, pseudoObj.v),
                          this_getProperty(I, pseudoObj, "length").ret.v, 0,
                          NativeArrayOf(<<>>))
  ELSE PropertiesToNative(I, pseudoObj, Append(cycles, pseudoObj.v),
                          EnumerableNames(I.objs[pseudoObj.v]), NativeObjectOf(<<>>, EmptyMap))

pseudoToNative(I, pseudoObj, cycles) ==
  IF pseudoObj.t \in {"undefined", "null", "number", "NaN", "string", "boolean"}
    THEN pseudoObj
  ELSE IF ~IsObj(pseudoObj) THEN NativeThrow("Error: Object is not pseudo")
  ELSE IF isa(I, pseudoObj, REGEXP)  \* Regular expression.
    THEN IF data(I.objs[pseudoObj.v]) = Null
           THEN NativeThrow("TypeError: Cannot read property 'source' of null")
           ELSE NativeRegExp(data(I.objs[pseudoObj.v]).source,
                             data(I.objs[pseudoObj.v]).flags,
                             data(I.objs[pseudoObj.v]).lastIndex)
  ELSE IF \E i \in 1..Len(cycles) : cycles[i] = pseudoObj.v
    THEN [t |-> "cycle", v |-> CHOOSE i \in 1..Len(cycles) : cycles[i] = pseudoObj.v]
  ELSE IF isa(I, pseudoObj, ARRAY)
    THEN ElementsToNative(I, pseudoObj, Append(cycles, pseudoObj.v),
                          this_getProperty(I, pseudoObj, "length").ret.v, 0,
                          NativeArrayOf(<<>>))
  ELSE PropertiesToNative(I, pseudoObj, Append(cycles, pseudoObj.v),
                          EnumerableNames(I.objs[pseudoObj.v]), NativeObjectOf(<<>>, EmptyMap))

\* for (let i = 0; i < len; i++) if (this.hasProperty(pseudoObj, i)) ...
ElementsToNative(I, pseudoObj, cycles, len, i, nativeObj) ==
  IF nativeObj.t = "throw" \/ i >= len THEN nativeObj
  ELSE IF ~Truthy(this_hasProperty(I, pseudoObj, ToName(Num(i))).ret)
    THEN ElementsToNative(I, pseudoObj, cycles, len, i + 1, nativeObj)
  ELSE ElementsToNative(I, pseudoObj, cycles, len, i + 1,
         WithElement(nativeObj, i,
           pseudoToNative(I, this_getProperty(I, pseudoObj, ToName(Num(i))).ret, cycles)))

\* for (const key in pseudoObj.properties) ...; reading the slot of an
\* accessor property runs the placeholder getter, which throws.
PropertiesToNative(I, pseudoObj, cycles, keys, nativeObj) ==
  IF nativeObj.t = "throw" \/ keys = <<>> THEN nativeObj
  ELSE IF /\ I.objs[pseudoObj.v].attrs[Head(keys)].accessor
          /\ I.objs[pseudoObj.v].attrs[Head(keys)].hasGet
    THEN NativeThrow("Error: Placeholder getter")
  ELSE PropertiesToNative(I, pseudoObj, cycles, Tail(keys),
         WithKey(nativeObj, Head(keys),
           pseudoToNative(I, I.objs[pseudoObj.v].properties[Head(keys)], cycles)))

\* createErrorSubclass(name).
createErrorSubclass(I, name) ==
  LET f == this_createNativeFunction(I, name, 1, TRUE)
      p == this_createObject(f.I, Obj(ERROR))
  IN this_SetAll(p.I, << SetOp(f.ret, "prototype", p.ret, <<NONENUMERABLE_DESCRIPTOR>>),
                    SetOp(p.ret, "name", Str(name), <<NONENUMERABLE_DESCRIPTOR>>),
                    SetOp(Obj(GLOBAL_OBJECT), name, f.ret, <<NONENUMERABLE_DESCRIPTOR>>) >>).I

\* The host's init hook: an asynchronous function af(value, callback) and a
\* native function nf(value) on the global object, and inputObject, the
\* interpreted copy of the hook's native value.
InputObject(I) ==
  IF I.initFunc_ = NoNative THEN I
  ELSE SetConverted(this_nativeToPseudo(I, I.initFunc_), Obj(GLOBAL_OBJECT),
                    "inputObject").I

\* An invocation of the hook, for the history: the global object it is
\* handed, the number of State objects created so far (none: nothing has
\* been stepped), and the own keys of every object that exists.
Invocation(I, globalObject) ==
  [globalObject |-> globalObject, stateCounter |-> I.stateCounter,
   keys |-> [id \in 1..Len(I.objs) |-> DOMAIN I.objs[id].properties]]

\* A hook that initGlobal invokes twice.
initFunc_Twice(I0) ==
  LET I1 == [I0 EXCEPT !.hooks = Append(@, Invocation(I0, Obj(GLOBAL_OBJECT)))]
      I == [I1 EXCEPT !.hooks = Append(@, Invocation(I1, Obj(GLOBAL_OBJECT)))]
      a == this_createAsyncFunction(I, "af", 2)
      s == this_setProperty(a.I, Obj(GLOBAL_OBJECT), "af", a.ret, <<>>)
      n == this_createNativeFunction(s.I, "nf", 1, FALSE)
  IN InputObject(this_setProperty(n.I, Obj(GLOBAL_OBJECT), "nf", n.ret, <<>>).I)

initFunc_(I0) ==
  LET I == [I0 EXCEPT !.hooks = Append(@, Invocation(I0, Obj(GLOBAL_OBJECT)))]
      a == this_createAsyncFunction(I, "af", 2)
      s == this_setProperty(a.I, Obj(GLOBAL_OBJECT), "af", a.ret, <<>>)
      n == this_createNativeFunction(s.I, "nf", 1, FALSE)
  IN InputObject(this_setProperty(n.I, Obj(GLOBAL_OBJECT), "nf", n.ret, <<>>).I)

\* setAsyncFunctionPrototype(obj, name, wrapper).
setAsyncFunctionPrototype(I, obj, name, argumentLength) ==
  LET a == this_createAsyncFunction(I, name, argumentLength)
  IN Define(a.I, I.objs[obj.v].properties["prototype"], name, a.ret,
            NONENUMERABLE_DESCRIPTOR)

\* The properties initRegExp defines on RegExp.prototype as undefined.
RegExpFlagNames ==
  [s \in {"REGEXP_PROTO.global", "REGEXP_PROTO.ignoreCase", "REGEXP_PROTO.multiline"} |->
     CASE s = "REGEXP_PROTO.global" -> "global"
       [] s = "REGEXP_PROTO.ignoreCase" -> "ignoreCase"
       [] s = "REGEXP_PROTO.multiline" -> "multiline"]

\* initGlobal(globalObject), for the parts of the global environment the
\* modelled programs use, as the sequence of its statements.  The objects
\* are created in this order, which gives them the indices named above.
InitStatements ==
  << "undefined", "this", "OBJECT_PROTO", "FUNCTION_PROTO", "OBJECT",
     "OBJECT.prototype", "OBJECT_PROTO.constructor", "Object", "defineProperty",
     "preventExtensions", "globalObject.proto", "ARRAY", "Array",
     "ARRAY_PROTO.length", "ARRAY_PROTO.class", "STRING", "String", "search",
     "REGEXP", "RegExp", "REGEXP_PROTO.global", "REGEXP_PROTO.ignoreCase",
     "REGEXP_PROTO.multiline", "REGEXP_PROTO.source", "exec", "ERROR", "Error",
     "ERROR_PROTO.message", "ERROR_PROTO.name", "RangeError", "ReferenceError",
     "SyntaxError", "TypeError", "initFunc_" >>

InitStatement(I, s) ==
  LET global == Obj(GLOBAL_OBJECT)
      errorProto == I.objs[ERROR].properties["prototype"]
  IN CASE s = "undefined" ->
            Define(I, global, "undefined", Undef,
                   NONCONFIGURABLE_READONLY_NONENUMERABLE_DESCRIPTOR)
       [] s = "this" ->
            Define(I, global, "this", global,
                   NONCONFIGURABLE_READONLY_NONENUMERABLE_DESCRIPTOR)
       [] s = "OBJECT_PROTO" -> Allocate(I, 0)
       [] s = "FUNCTION_PROTO" ->
            [Allocate(I, OBJECT_PROTO) EXCEPT !.objs[FUNCTION_PROTO].class = "Function"]
       [] s = "OBJECT" -> this_createNativeFunction(I, "Object", 1, TRUE).I
       [] s = "OBJECT.prototype" ->
            Define(I, Obj(OBJECT), "prototype", Obj(OBJECT_PROTO), NONENUMERABLE_DESCRIPTOR)
       [] s = "OBJECT_PROTO.constructor" ->
            Define(I, Obj(OBJECT_PROTO), "constructor", Obj(OBJECT), NONENUMERABLE_DESCRIPTOR)
       [] s = "Object" -> Define(I, global, "Object", Obj(OBJECT), NONENUMERABLE_DESCRIPTOR)
       [] s = "defineProperty" ->
            InstallNative(I, Obj(OBJECT), "defineProperty", "defineProperty", 3, FALSE)
       [] s = "preventExtensions" ->
            InstallNative(I, Obj(OBJECT), "preventExtensions", "preventExtensions", 1, FALSE)
       [] s = "globalObject.proto" -> [I EXCEPT !.objs[GLOBAL_OBJECT].proto = OBJECT_PROTO]
       [] s = "ARRAY" -> this_createNativeFunction(I, "Array", 0, TRUE).I
       [] s = "Array" -> Define(I, global, "Array", Obj(ARRAY), NONENUMERABLE_DESCRIPTOR)
       [] s = "ARRAY_PROTO.length" ->
            Define(I, Obj(ARRAY_PROTO), "length", Num(0), ARRAY_LENGTH_DESCRIPTOR)
       [] s = "ARRAY_PROTO.class" -> [I EXCEPT !.objs[ARRAY_PROTO].class = "Array"]
       [] s = "STRING" -> this_createNativeFunction(I, "String", 1, TRUE).I
       [] s = "String" -> Define(I, global, "String", Obj(STRING_CTOR), NONENUMERABLE_DESCRIPTOR)
       [] s = "search" -> setAsyncFunctionPrototype(I, Obj(STRING_CTOR), "search", 2)
       [] s = "REGEXP" -> this_createNativeFunction(I, "RegExp", 2, TRUE).I
       [] s = "RegExp" -> Define(I, global, "RegExp", Obj(REGEXP), NONENUMERABLE_DESCRIPTOR)
       [] s \in {"REGEXP_PROTO.global", "REGEXP_PROTO.ignoreCase", "REGEXP_PROTO.multiline"} ->
            Define(I, Obj(REGEXP_PROTO), RegExpFlagNames[s], Undef,
                   READONLY_NONENUMERABLE_DESCRIPTOR)
       [] s = "REGEXP_PROTO.source" ->
            Define(I, Obj(REGEXP_PROTO), "source", Str("(?:)"),
                   READONLY_NONENUMERABLE_DESCRIPTOR)
       [] s = "exec" -> setAsyncFunctionPrototype(I, Obj(REGEXP), "exec", 2)
       [] s = "ERROR" -> this_createNativeFunction(I, "Error", 1, TRUE).I
       [] s = "Error" -> Define(I, global, "Error", Obj(ERROR), NONENUMERABLE_DESCRIPTOR)
       [] s = "ERROR_PROTO.message" ->
            Define(I, errorProto, "message", Str(""), NONENUMERABLE_DESCRIPTOR)
       [] s = "ERROR_PROTO.name" ->
            Define(I, errorProto, "name", Str("Error"), NONENUMERABLE_DESCRIPTOR)
       [] s \in {"RangeError", "ReferenceError", "SyntaxError", "TypeError"} ->
            this_createErrorSubclass(I, s)
       [] s = "initFunc_" -> initFunc_(I)

\* The statements from the n-th to the m-th, in order (the first half of
\* them, then the rest).
RECURSIVE InitStatementsFrom(_, _, _)
InitStatementsFrom(I, n, m) ==
  IF n > m THEN I
  ELSE IF n = m THEN this_InitStatement(I, InitStatements[n])
  ELSE LET J == InitStatementsFrom(I, n, (n + m) \div 2)
       IN IF Len(J.objs) > 0 THEN InitStatementsFrom(J, ((n + m) \div 2) + 1, m) ELSE J

initGlobal(I) == InitStatementsFrom(I, 1, Len(InitStatements))

\* The constructor: global scope (strictness from the program), initGlobal,
\* the declarations of the program, the polyfills run to their end, then
\* the stack is pointed at the program.
\* this.globalScope = this.createScope(this.ast, null), on the object g.ret.
GlobalScope(g, ast) == [g.I EXCEPT !.scopes = <<Scope(0, StartsStrict(ast), g.ret.v)>>]
\* The stack holds the frame `state` alone.
Holding(I, state) == [I EXCEPT !.stateStack = <<state>>, !.stateCounter = state.id]
\* this.stateStack = [new State(node, this.globalScope)]
PointAt(I, node) == Holding(I, NewState(I, node, GLOBAL_SCOPE))
\* this.run() over the polyfills; this.value = undefined.
RunPolyfills(I) ==
  [this_run(PointAt(I, Polyfills), 1).I EXCEPT
     !.value = Undef, !.completed = <<>>, !.valueReset = FALSE, !.enumerated = <<>>,
     !.loops = <<>>]

\* Each stage is evaluated before the next one starts from its result.
Construct(ast, opt_initFunc) ==
  CHOOSE r \in
    {PointAt(RunPolyfills(c), ast) :
       c \in {this_populateScope_(b, ast, GLOBAL_SCOPE).I :
               b \in {this_initGlobal(a) :
                      a \in {GlobalScope(
                               this_createObjectProto(
                                 [Blank EXCEPT !.initFunc_ = opt_initFunc], Null),
                               ast)}}}} : TRUE


\* The definition that a call names.
Invoke(method, args) ==
  CASE method = "stepFunctions_" -> StepFunction(args[1])
    [] method = "setProperty" ->
           setProperty(args[1], args[2], args[3], args[4], args[5])
    [] method = "getProperty" ->
           getProperty(args[1], args[2], args[3])
    [] method = "hasProperty" ->
           hasProperty(args[1], args[2], args[3])
    [] method = "throwException" ->
           throwException(args[1], args[2], args[3])
    [] method = "unwind" ->
           unwind(args[1], args[2], args[3], args[4])
    [] method = "createObjectProto" ->
           createObjectProto(args[1], args[2])
    [] method = "createObject" ->
           createObject(args[1], args[2])
    [] method = "createFunctionBase_" ->
           createFunctionBase_(args[1], args[2], args[3])
    [] method = "createFunction" ->
           createFunction(args[1], args[2], args[3], args[4])
    [] method = "createNativeFunction" ->
           createNativeFunction(args[1], args[2], args[3], args[4])
    [] method = "createAsyncFunction" ->
           createAsyncFunction(args[1], args[2], args[3])
    [] method = "createArray" ->
           createArray(args[1])
    [] method = "createScope" ->
           createScope(args[1], args[2], args[3])
    [] method = "createSpecialScope" ->
           createSpecialScope(args[1], args[2], args[3])
    [] method = "populateScope_" ->
           populateScope_(args[1], args[2], args[3])
    [] method = "boxThis_" ->
           boxThis_(args[1], args[2])
    [] method = "getValueFromScope" ->
           getValueFromScope(args[1], args[2])
    [] method = "setValueToScope" ->
           setValueToScope(args[1], args[2], args[3])
    [] method = "getValue" ->
           getValue(args[1], args[2])
    [] method = "setValue" ->
           setValue(args[1], args[2], args[3])
    [] method = "createGetter_" ->
           createGetter_(args[1], args[2], args[3])
    [] method = "createSetter_" ->
           createSetter_(args[1], args[2], args[3], args[4])
    [] method = "step" ->
           step(args[1], args[2])
    [] method = "run" ->
           run(args[1], args[2])
    [] method = "initGlobal" ->
           initGlobal(args[1])
    [] method = "HostDefineProperty" ->
           HostDefineProperty(args[1], args[2], args[3])
    [] method = "Unhandled" ->
           Unhandled(args[1], args[2])
    [] method = "unwindLoop" ->
           unwindLoop(args[1], args[2], args[3], args[4])
    [] method = "DeleteFrom" ->
           DeleteFrom(args[1], args[2])
    [] method = "SetPropertyArray" ->
           SetPropertyArray(args[1], args[2], args[3], args[4], args[5])
    [] method = "SetPropertyDefine" ->
           SetPropertyDefine(args[1], args[2], args[3], args[4], args[5])
    [] method = "SetPropertyAssign" ->
           SetPropertyAssign(args[1], args[2], args[3], args[4], args[5])
    [] method = "SetAll" ->
           SetAll(args[1], args[2])
    [] method = "ApplyDecls" ->
           ApplyDecls(args[1], args[2], args[3])
    [] method = "stepProgram" ->
           stepProgram(args[1])
    [] method = "stepConditionalExpression" ->
           stepConditionalExpression(args[1])
    [] method = "stepIdentifier" ->
           stepIdentifier(args[1])
    [] method = "stepVariableDeclaration" ->
           stepVariableDeclaration(args[1])
    [] method = "stepWithStatement" ->
           stepWithStatement(args[1])
    [] method = "stepBinaryExpression" ->
           stepBinaryExpression(args[1])
    [] method = "stepLogicalExpression" ->
           stepLogicalExpression(args[1])
    [] method = "stepMemberExpression" ->
           stepMemberExpression(args[1])
    [] method = "stepAssignmentExpression" ->
           stepAssignmentExpression(args[1])
    [] method = "stepUpdateExpression" ->
           stepUpdateExpression(args[1])
    [] method = "stepArrayExpression" ->
           stepArrayExpression(args[1])
    [] method = "stepObjectExpression" ->
           stepObjectExpression(args[1])
    [] method = "NativeObject" ->
           NativeObject(args[1], args[2], args[3])
    [] method = "NativeDefineProperty" ->
           NativeDefineProperty(args[1], args[2], args[3])
    [] method = "AssignElements" ->
           AssignElements(args[1], args[2], args[3])
    [] method = "NativeArray" ->
           NativeArray(args[1], args[2], args[3])
    [] method = "NativeError" ->
           NativeError(args[1], args[2], args[3], args[4])
    [] method = "CallNative" ->
           CallNative(args[1], args[2], args[3], args[4])
    [] method = "CallInterpreted" ->
           CallInterpreted(args[1], args[2])
    [] method = "CallNativeBranch" ->
           CallNativeBranch(args[1], args[2])
    [] method = "CallAsyncBranch" ->
           CallAsyncBranch(args[1], args[2])
    [] method = "CallDetermine" ->
           CallDetermine(args[1])
    [] method = "CallArguments" ->
           CallArguments(args[1])
    [] method = "CallExecute" ->
           CallExecute(args[1])
    [] method = "stepCallExpression" ->
           stepCallExpression(args[1])
    [] method = "stepBody" ->
           stepBody(args[1], args[2], args[3])
    [] method = "runOnce" ->
           runOnce(args[1], args[2])
    [] method = "runLoop" ->
           runLoop(args[1], args[2], args[3])
    [] method = "createErrorSubclass" ->
           createErrorSubclass(args[1], args[2])
    [] method = "InitStatement" ->
           InitStatement(args[1], args[2])
    [] method = "stepThrowStatement" ->
           stepThrowStatement(args[1])
    [] method = "stepTryStatement" ->
           stepTryStatement(args[1])
    [] method = "stepCatchClause" ->
           stepCatchClause(args[1])
    [] method = "UnaryDelete" ->
           UnaryDelete(args[1], args[2], args[3])
    [] method = "stepUnaryExpression" ->
           stepUnaryExpression(args[1])
    [] method = "ForInVariable" ->
           ForInVariable(args[1])
    [] method = "ForInName" ->
           ForInName(args[1])
    [] method = "stepForInStatement" ->
           stepForInStatement(args[1])
    [] method = "maybeThrowRegExp" ->
           maybeThrowRegExp(args[1], args[2], args[3])
    [] method = "vmCall" ->
           vmCall(args[1], args[2], args[3])
    [] method = "CallAsync" ->
           CallAsync(args[1], args[2], args[3], args[4])
    [] method = "SwitchCases" ->
           SwitchCases(args[1], args[2])
    [] method = "stepDoWhileStatement" ->
           stepDoWhileStatement(args[1])
    [] method = "nativeToPseudo" ->
           nativeToPseudo(args[1], args[2])
    [] method = "ArrayToPseudo" ->
           ArrayToPseudo(args[1], args[2], args[3])
    [] method = "ObjectToPseudo" ->
           ObjectToPseudo(args[1], args[2], args[3])
    [] method = "pseudoToNative" ->
           pseudoToNative(args[1], args[2], args[3])
    [] method = "constructor" -> Construct(args[1], args[2])

(***************************************************************************)
(* The programs the interpreter is constructed with (located user code).   *)
(***************************************************************************)
Lit(x) == Literal(TRUE, x)
Var(name) == Identifier(TRUE, name)
Member(object, name) == MemberExpression(TRUE, object, Var(name), FALSE)
Index(object, i) == MemberExpression(TRUE, object, Lit(Num(i)), TRUE)
Stmt(expression) == ExpressionStatement(TRUE, expression)
Assign(operator, left, right) == AssignmentExpression(TRUE, operator, left, right)
Call(callee, arguments) == CallExpression(TRUE, callee, arguments)
Declare(name, init) == VariableDeclaration(TRUE, <<VariableDeclarator(name, <<init>>)>>)
Function(id, params, body) ==
  FunctionExpression(TRUE, id, params, BlockStatement(TRUE, body))
Plus(left, right) == BinaryExpression(TRUE, "+", left, right)
UseStrict == Stmt(Lit(Str("use strict")))
Delete(argument) == UnaryExpression(TRUE, "delete", argument)
\* Object.defineProperty(obj, '<name>', {value: <value>});
DefineValue(obj, name, valueNode) ==
  Stmt(Call(Member(Var("Object"), "defineProperty"),
            <<obj, Lit(Str(name)),
              ObjectExpression(TRUE, <<Property("value", "init", valueNode)>>)>>))
\* n = n + 1;
CountRun == Stmt(Assign("=", Var("n"), Plus(Var("n"), Lit(Num(1)))))
\* for (var <name> in <right>) { <body> }
ForIn(name, right, body) ==
  ForInStatement(TRUE, VariableDeclaration(TRUE, <<VariableDeclarator(name, <<>>)>>),
                 right, BlockStatement(TRUE, body))
\* function F() {} F.prototype.a = 1;
DeclareF ==
  <<FunctionDeclaration(TRUE, "F", <<>>, BlockStatement(TRUE, <<>>)),
    Stmt(Assign("=", Member(Member(Var("F"), "prototype"), "a"), Lit(Num(1))))>>

Source(program) ==
  CASE program = "x" ->            \* var x=1; x;
         <<Declare("x", Lit(Num(1))), Stmt(Var("x"))>>
    [] program = "addOne" ->       \* function addOne(number) { return number + 1 } addOne(1);
         <<FunctionDeclaration(TRUE, "addOne", <<"number">>,
             BlockStatement(TRUE, <<ReturnStatement(TRUE, <<Plus(Var("number"), Lit(Num(1)))>>)>>)),
           Stmt(Call(Var("addOne"), <<Lit(Num(1))>>))>>
    [] program = "obj" ->          \* var obj = {}; obj.prop = "hi"; obj.prop;
         <<Declare("obj", ObjectExpression(TRUE, <<>>)),
           Stmt(Assign("=", Member(Var("obj"), "prop"), Lit(Str("hi")))),
           Stmt(Member(Var("obj"), "prop"))>>
    [] program = "empty" ->        \* the empty source text
         <<>>
    [] program = "async" ->        \* 3; af(0) + 1;
         <<Stmt(Lit(Num(3))), Stmt(Plus(Call(Var("af"), <<Lit(Num(0))>>), Lit(Num(1))))>>
    [] program = "native" ->       \* nf(2) + 1;
         <<Stmt(Plus(Call(Var("nf"), <<Lit(Num(2))>>), Lit(Num(1))))>>
    [] program = "if" ->           \* 1; if (false) { 2; }
         <<Stmt(Lit(Num(1))),
           IfStatement(TRUE, Lit(Bool(FALSE)), BlockStatement(TRUE, <<Stmt(Lit(Num(2)))>>), <<>>)>>
    [] program = "with" ->         \* var a = [1, 2, 3]; with (a) { length = 0; }
         <<Declare("a", ArrayExpression(TRUE, <<Lit(Num(1)), Lit(Num(2)), Lit(Num(3))>>)),
           WithStatement(TRUE, Var("a"),
             BlockStatement(TRUE, <<Stmt(Assign("=", Var("length"), Lit(Num(0))))>>))>>
    [] program = "array" ->
         \* var a = [1]; a[3] = 2; a.length = 1;
         \* Object.defineProperty(a, '4', {value: 1});
         \* Object.preventExtensions(a); a[6] = 1; new Array(1, 2); Array(2);
         <<Declare("a", ArrayExpression(TRUE, <<Lit(Num(1))>>)),
           Stmt(Assign("=", Index(Var("a"), 3), Lit(Num(2)))),
           Stmt(Assign("=", Member(Var("a"), "length"), Lit(Num(1)))),
           Stmt(Call(Member(Var("Object"), "defineProperty"),
                     <<Var("a"), Lit(Str("4")),
                       ObjectExpression(TRUE, <<Property("value", "init", Lit(Num(1)))>>)>>)),
           Stmt(Call(Member(Var("Object"), "preventExtensions"), <<Var("a")>>)),
           Stmt(Assign("=", Index(Var("a"), 6), Lit(Num(1)))),
           Stmt(NewExpression(TRUE, Var("Array"), <<Lit(Num(1)), Lit(Num(2))>>)),
           Stmt(Call(Var("Array"), <<Lit(Num(2))>>))>>
    [] program = "member" ->
         \* var n = 0;
         \* var o = {get k() { n = n + 1; return 5; }, set k(v) {}};
         \* o.k; o.k += 1; o.k++; n;
         <<Declare("n", Lit(Num(0))),
           Declare("o", ObjectExpression(TRUE, <<
             Property("k", "get",
               Function("", <<>>, <<CountRun, ReturnStatement(TRUE, <<Lit(Num(5))>>)>>)),
             Property("k", "set", Function("", <<"v">>, <<>>))>>)),
           Stmt(Member(Var("o"), "k")),
           Stmt(Assign("+=", Member(Var("o"), "k"), Lit(Num(1)))),
           Stmt(UpdateExpression(TRUE, "++", FALSE, Member(Var("o"), "k"))),
           Stmt(Var("n"))>>
    [] program = "callee" ->
         \* var n = 0; var o = {get k() { n = n + 1; return nf; }}; o.k(3);
         <<Declare("n", Lit(Num(0))),
           Declare("o", ObjectExpression(TRUE, <<
             Property("k", "get",
               Function("", <<>>, <<CountRun, ReturnStatement(TRUE, <<Var("nf")>>)>>))>>)),
           Stmt(Call(Member(Var("o"), "k"), <<Lit(Num(3))>>))>>
    [] program = "global" ->
         \* var n = 0;
         \* Object.defineProperty(this, 'g',
         \*   {get: function() { n = n + 1; return 5; }, set: function(v) {}});
         \* g; g++;
         <<Declare("n", Lit(Num(0))),
           Stmt(Call(Member(Var("Object"), "defineProperty"),
                     <<ThisExpression(TRUE), Lit(Str("g")),
                       ObjectExpression(TRUE, <<
                         Property("get", "init",
                           Function("", <<>>, <<CountRun, ReturnStatement(TRUE, <<Lit(Num(5))>>)>>)),
                         Property("set", "init", Function("", <<"v">>, <<>>))>>)>>)),
           Stmt(Var("g")),
           Stmt(UpdateExpression(TRUE, "++", FALSE, Var("g")))>>

    [] program = "uncaught" ->     \* 1; null.x;
         <<Stmt(Lit(Num(1))), Stmt(Member(Lit(Null), "x"))>>
    [] program = "throw" ->        \* throw 1;
         <<ThrowStatement(TRUE, Lit(Num(1)))>>
    [] program = "try" ->
         \* try { null.x } catch (e) { e.name + ':' + e.message }
         <<TryStatement(TRUE,
             BlockStatement(TRUE, <<Stmt(Member(Lit(Null), "x"))>>),
             <<CatchClause(TRUE, "e", BlockStatement(TRUE, <<
                 Stmt(Plus(Plus(Member(Var("e"), "name"), Lit(Str(":"))),
                           Member(Var("e"), "message")))>>))>>,
             <<>>)>>
    [] program = "catch" ->        \* try { throw 1 } catch (e) { } e;
         <<TryStatement(TRUE,
             BlockStatement(TRUE, <<ThrowStatement(TRUE, Lit(Num(1)))>>),
             <<CatchClause(TRUE, "e", BlockStatement(TRUE, <<>>))>>,
             <<>>),
           Stmt(Var("e"))>>

    [] program = "search" ->       \* 'ab'.search('b');
         <<Stmt(Call(Member(Lit(Str("ab")), "search"), <<Lit(Str("b"))>>))>>
    [] program = "searchstrict" ->
         \* 'use strict'; try { 'ab'.search('b'); } catch (e) { e.message; }
         <<UseStrict,
           TryStatement(TRUE,
             BlockStatement(TRUE,
               <<Stmt(Call(Member(Lit(Str("ab")), "search"), <<Lit(Str("b"))>>))>>),
             <<CatchClause(TRUE, "e", BlockStatement(TRUE, <<
                 Stmt(Member(Var("e"), "message"))>>))>>,
             <<>>)>>
    [] program = "exec" ->         \* 'use strict'; RegExp.prototype.exec('a');
         <<UseStrict,
           Stmt(Call(Member(Member(Var("RegExp"), "prototype"), "exec"),
                     <<Lit(Str("a"))>>))>>
    [] program = "regexp" ->       \* /b/.exec('ab');
         <<Stmt(Call(Member(Lit(NativeRegExp("b", "", 0)), "exec"),
                     <<Lit(Str("ab"))>>))>>
    [] program = "strict" ->
         \* 'use strict'; var v = 1; this.p = 2; constructor = 3; y = 4;
         <<UseStrict, Declare("v", Lit(Num(1))),
           Stmt(Assign("=", Member(ThisExpression(TRUE), "p"), Lit(Num(2)))),
           Stmt(Assign("=", Var("constructor"), Lit(Num(3)))),
           Stmt(Assign("=", Var("y"), Lit(Num(4))))>>
    [] program = "sloppy" ->       \* y = 1; x = x;
         <<Stmt(Assign("=", Var("y"), Lit(Num(1)))),
           Stmt(Assign("=", Var("x"), Var("x")))>>
    [] program = "xxstrict" ->     \* 'use strict'; x = x;
         <<UseStrict, Stmt(Assign("=", Var("x"), Var("x")))>>

    [] program = "accessor" ->
         \* var o = {get k() { return 1; }, set k(v) {}};
         \* delete o.k; o.k = 5; o.k;
         <<Declare("o", ObjectExpression(TRUE, <<
             Property("k", "get", Function("", <<>>, <<ReturnStatement(TRUE, <<Lit(Num(1))>>)>>)),
             Property("k", "set", Function("", <<"v">>, <<>>))>>)),
           Stmt(Delete(Member(Var("o"), "k"))),
           Stmt(Assign("=", Member(Var("o"), "k"), Lit(Num(5)))),
           Stmt(Member(Var("o"), "k"))>>
    [] program = "sealed" ->
         \* var o = {a: 0, b: 1}; Object.preventExtensions(o);
         \* o.c = 2; o.b = 3; Object.defineProperty(o, 'b', {value: 4});
         \* delete o.b; o.b = 5; Object.defineProperty(o, 'a', {value: 1});
         <<Declare("o", ObjectExpression(TRUE, <<
             Property("a", "init", Lit(Num(0))), Property("b", "init", Lit(Num(1)))>>)),
           Stmt(Call(Member(Var("Object"), "preventExtensions"), <<Var("o")>>)),
           Stmt(Assign("=", Member(Var("o"), "c"), Lit(Num(2)))),
           Stmt(Assign("=", Member(Var("o"), "b"), Lit(Num(3)))),
           DefineValue(Var("o"), "b", Lit(Num(4))),
           Stmt(Delete(Member(Var("o"), "b"))),
           Stmt(Assign("=", Member(Var("o"), "b"), Lit(Num(5)))),
           DefineValue(Var("o"), "a", Lit(Num(1)))>>
    [] program = "sealedstrict" ->
         \* 'use strict'; var o = {}; Object.preventExtensions(o); o.c = 2;
         <<UseStrict, Declare("o", ObjectExpression(TRUE, <<>>)),
           Stmt(Call(Member(Var("Object"), "preventExtensions"), <<Var("o")>>)),
           Stmt(Assign("=", Member(Var("o"), "c"), Lit(Num(2))))>>
    [] program = "delete" ->
         \* var o = {q: 2}; Object.defineProperty(o, 'p', {value: 1});
         \* delete o.p; delete 1; delete o.q;
         <<Declare("o", ObjectExpression(TRUE, <<Property("q", "init", Lit(Num(2)))>>)),
           DefineValue(Var("o"), "p", Lit(Num(1))),
           Stmt(Delete(Member(Var("o"), "p"))),
           Stmt(Delete(Lit(Num(1)))),
           Stmt(Delete(Member(Var("o"), "q")))>>
    [] program = "deletestrict" ->
         \* 'use strict'; var o = {};
         \* Object.defineProperty(o, 'p', {value: 1}); delete 1; delete o.p;
         <<UseStrict, Declare("o", ObjectExpression(TRUE, <<>>)),
           DefineValue(Var("o"), "p", Lit(Num(1))),
           Stmt(Delete(Lit(Num(1)))),
           Stmt(Delete(Member(Var("o"), "p")))>>

    [] program = "forin" ->
         \* function F() {} F.prototype.a = 1;
         \* F.prototype.b = 2; F.prototype.d = 5; var o = new F(); o.b = 3; o.c = 4;
         \* Object.defineProperty(o, 'd', {value: 0});
         \* for (var k in o) { delete o.c; }
         DeclareF \o
         <<Stmt(Assign("=", Member(Member(Var("F"), "prototype"), "b"), Lit(Num(2)))),
           Stmt(Assign("=", Member(Member(Var("F"), "prototype"), "d"), Lit(Num(5)))),
           Declare("o", NewExpression(TRUE, Var("F"), <<>>)),
           Stmt(Assign("=", Member(Var("o"), "b"), Lit(Num(3)))),
           Stmt(Assign("=", Member(Var("o"), "c"), Lit(Num(4)))),
           DefineValue(Var("o"), "d", Lit(Num(0))),
           ForIn("k", Var("o"), <<Stmt(Delete(Member(Var("o"), "c")))>>)>>
    [] program = "forinshadow" ->
         \* function F() {} F.prototype.a = 1; F.prototype.c = 2;
         \* var o = new F(); o.b = 2; o.c = 3;
         \* for (var k in o) { o.a = 3; delete o.c; }
         DeclareF \o
         <<Stmt(Assign("=", Member(Member(Var("F"), "prototype"), "c"), Lit(Num(2)))),
           Declare("o", NewExpression(TRUE, Var("F"), <<>>)),
           Stmt(Assign("=", Member(Var("o"), "b"), Lit(Num(2)))),
           Stmt(Assign("=", Member(Var("o"), "c"), Lit(Num(3)))),
           ForIn("k", Var("o"),
                 <<Stmt(Assign("=", Member(Var("o"), "a"), Lit(Num(3)))),
                   Stmt(Delete(Member(Var("o"), "c")))>>)>>
    [] program = "forinarray" ->
         \* var o = []; o[2] = 1; o.x = 1; o[0] = 2;
         \* for (var k in o) {} for (var c in 'ab') {}
         <<Declare("o", ArrayExpression(TRUE, <<>>)),
           Stmt(Assign("=", Index(Var("o"), 2), Lit(Num(1)))),
           Stmt(Assign("=", Member(Var("o"), "x"), Lit(Num(1)))),
           Stmt(Assign("=", Index(Var("o"), 0), Lit(Num(2)))),
           ForIn("k", Var("o"), <<>>),
           ForIn("c", Lit(Str("ab")), <<>>)>>

    [] program = "inputObject" ->  \* inputObject.b = 2; this.inputObject;
         <<Stmt(Assign("=", Member(Var("inputObject"), "b"), Lit(Num(2)))),
           Stmt(Member(ThisExpression(TRUE), "inputObject"))>>
    [] program = "input" ->        \* inputObject;
         <<Stmt(Var("inputObject"))>>
    [] program = "finally" ->      \* try { 1; } catch (e) { 2; } finally { null.x; }
         <<TryStatement(TRUE,
             BlockStatement(TRUE, <<Stmt(Lit(Num(1)))>>),
             <<CatchClause(TRUE, "e", BlockStatement(TRUE, <<Stmt(Lit(Num(2)))>>))>>,
             <<BlockStatement(TRUE, <<Stmt(Member(Lit(Null), "x"))>>)>>)>>
    [] program = "tryreturn" ->
         \* function f() { try { return 1; } finally { 2; } } f();
         <<FunctionDeclaration(TRUE, "f", <<>>, BlockStatement(TRUE, <<
             TryStatement(TRUE,
               BlockStatement(TRUE, <<ReturnStatement(TRUE, <<Lit(Num(1))>>)>>),
               <<>>,
               <<BlockStatement(TRUE, <<Stmt(Lit(Num(2)))>>)>>)>>)),
           Stmt(Call(Var("f"), <<>>))>>
    [] program = "labeltry" ->
         \* function g() { a: try { break a; } finally { 3; } } g();
         <<FunctionDeclaration(TRUE, "g", <<>>, BlockStatement(TRUE, <<
             LabeledStatement(TRUE, "a",
               TryStatement(TRUE,
                 BlockStatement(TRUE, <<BreakStatement(TRUE, <<"a">>)>>),
                 <<>>,
                 <<BlockStatement(TRUE, <<Stmt(Lit(Num(3)))>>)>>))>>)),
           Stmt(Call(Var("g"), <<>>))>>
    [] program = "loop" ->
         \* var i = 0; b: { break b; }
         \* a: do { i++; do { if (i < 2) { continue a; } break; } while (true); }
         \* while (i < 2);
         <<Declare("i", Lit(Num(0))),
           LabeledStatement(TRUE, "b",
             BlockStatement(TRUE, <<BreakStatement(TRUE, <<"b">>)>>)),
           LabeledStatement(TRUE, "a",
             DoWhileStatement(TRUE,
               BlockStatement(TRUE, <<
                 Stmt(UpdateExpression(TRUE, "++", FALSE, Var("i"))),
                 DoWhileStatement(TRUE,
                   BlockStatement(TRUE, <<
                     IfStatement(TRUE, BinaryExpression(TRUE, "<", Var("i"), Lit(Num(2))),
                       BlockStatement(TRUE, <<ContinueStatement(TRUE, <<"a">>)>>), <<>>),
                     BreakStatement(TRUE, <<>>)>>),
                   Lit(Bool(TRUE)))>>),
               BinaryExpression(TRUE, "<", Var("i"), Lit(Num(2)))))>>
    [] program = "switch" ->
         \* switch (2) { default: 'd'; case 1: 'a'; case 2: 'b'; break; case 3: 'c'; }
         <<SwitchStatement(TRUE, Lit(Num(2)), <<
             SwitchCase(<<>>, <<Stmt(Lit(Str("d")))>>),
             SwitchCase(<<Lit(Num(1))>>, <<Stmt(Lit(Str("a")))>>),
             SwitchCase(<<Lit(Num(2))>>, <<Stmt(Lit(Str("b"))), BreakStatement(TRUE, <<>>)>>),
             SwitchCase(<<Lit(Num(3))>>, <<Stmt(Lit(Str("c")))>>)>>)>>
    [] program = "switchdefault" ->
         \* switch (4) { case 1: 'a'; default: 'd'; case 2: 'b'; }
         <<SwitchStatement(TRUE, Lit(Num(4)), <<
             SwitchCase(<<Lit(Num(1))>>, <<Stmt(Lit(Str("a")))>>),
             SwitchCase(<<>>, <<Stmt(Lit(Str("d")))>>),
             SwitchCase(<<Lit(Num(2))>>, <<Stmt(Lit(Str("b")))>>)>>)>>
    [] program = "construct" ->
         \* function F(x) { return x; } new F(1); new F(F); new F(null); F(2);
         <<FunctionDeclaration(TRUE, "F", <<"x">>, BlockStatement(TRUE, <<
             ReturnStatement(TRUE, <<Var("x")>>)>>)),
           Stmt(NewExpression(TRUE, Var("F"), <<Lit(Num(1))>>)),
           Stmt(NewExpression(TRUE, Var("F"), <<Var("F")>>)),
           Stmt(NewExpression(TRUE, Var("F"), <<Lit(Null)>>)),
           Stmt(Call(Var("F"), <<Lit(Num(2))>>))>>
    [] program = "setter" ->
         \* var n = 0;
         \* var p = {set k(v) { n = n + 1; t = this; a = v; return 9; },
         \*          get g() { return 1; }};
         \* function F() {} F.prototype = p; var o = new F();
         \* var r = (o.k = 5); p.k = 6; o.g = 2;
         <<Declare("n", Lit(Num(0))),
           Declare("p", ObjectExpression(TRUE, <<
             Property("k", "set", Function("", <<"v">>, <<
               CountRun,
               Stmt(Assign("=", Var("t"), ThisExpression(TRUE))),
               Stmt(Assign("=", Var("a"), Var("v"))),
               ReturnStatement(TRUE, <<Lit(Num(9))>>)>>)),
             Property("g", "get", Function("", <<>>, <<ReturnStatement(TRUE, <<Lit(Num(1))>>)>>))>>)),
           FunctionDeclaration(TRUE, "F", <<>>, BlockStatement(TRUE, <<>>)),
           Stmt(Assign("=", Member(Var("F"), "prototype"), Var("p"))),
           Declare("o", NewExpression(TRUE, Var("F"), <<>>)),
           Declare("r", Assign("=", Member(Var("o"), "k"), Lit(Num(5)))),
           Stmt(Assign("=", Member(Var("p"), "k"), Lit(Num(6)))),
           Stmt(Assign("=", Member(Var("o"), "g"), Lit(Num(2))))>>
    [] program = "getterstrict" ->
         \* 'use strict'; var o = {get g() { return 1; }}; o.g = 2;
         <<UseStrict,
           Declare("o", ObjectExpression(TRUE, <<
             Property("g", "get", Function("", <<>>, <<ReturnStatement(TRUE, <<Lit(Num(1))>>)>>))>>)),
           Stmt(Assign("=", Member(Var("o"), "g"), Lit(Num(2))))>>
    [] program = "arraysetter" ->
         \* Object.defineProperty(Array.prototype, '2', {set: function(v) {}});
         \* var a = []; a[2] = 1;
         <<Stmt(Call(Member(Var("Object"), "defineProperty"),
                     <<Member(Var("Array"), "prototype"), Lit(Str("2")),
                       ObjectExpression(TRUE, <<
                         Property("set", "init", Function("", <<"v">>, <<>>))>>)>>)),
           Declare("a", ArrayExpression(TRUE, <<>>)),
           Stmt(Assign("=", Index(Var("a"), 2), Lit(Num(1))))>>
    [] program = "graph" ->
         \* var s = []; s[0] = s; var o = {a: s, b: s}; s[1] = o;
         <<Declare("s", ArrayExpression(TRUE, <<>>)),
           Stmt(Assign("=", Index(Var("s"), 0), Var("s"))),
           Declare("o", ObjectExpression(TRUE, <<
             Property("a", "init", Var("s")), Property("b", "init", Var("s"))>>)),
           Stmt(Assign("=", Index(Var("s"), 1), Var("o")))>>
    [] program = "hoist" ->
         \* f(); if (false) { var v; }
         \* function f() { var w = function e() { var y; }; function g() { var z; } }
         <<Stmt(Call(Var("f"), <<>>)),
           IfStatement(TRUE, Lit(Bool(FALSE)),
             BlockStatement(TRUE, <<VariableDeclaration(TRUE, <<VariableDeclarator("v", <<>>)>>)>>),
             <<>>),
           FunctionDeclaration(TRUE, "f", <<>>, BlockStatement(TRUE, <<
             Declare("w", Function("e", <<>>, <<
               VariableDeclaration(TRUE, <<VariableDeclarator("y", <<>>)>>)>>)),
             FunctionDeclaration(TRUE, "g", <<>>, BlockStatement(TRUE, <<
               VariableDeclaration(TRUE, <<VariableDeclarator("z", <<>>)>>)>>))>>))>>
    [] program = "clash" ->        \* function f() {} var f; f();
         <<FunctionDeclaration(TRUE, "f", <<>>, BlockStatement(TRUE, <<>>)),
           VariableDeclaration(TRUE, <<VariableDeclarator("f", <<>>)>>),
           Stmt(Call(Var("f"), <<>>))>>
    [] program = "stale" ->        \* var a = af(0); var b = af(1);
         <<Declare("a", Call(Var("af"), <<Lit(Num(0))>>)),
           Declare("b", Call(Var("af"), <<Lit(Num(1))>>))>>
    [] program = "for" ->
         \* var i; var n = 0; for (i = 0; i < 2; i++) { n = n + 1; continue; n = 9; }
         <<VariableDeclaration(TRUE, <<VariableDeclarator("i", <<>>)>>),
           Declare("n", Lit(Num(0))),
           ForStatement(TRUE,
             <<Assign("=", Var("i"), Lit(Num(0)))>>,
             <<BinaryExpression(TRUE, "<", Var("i"), Lit(Num(2)))>>,
             <<UpdateExpression(TRUE, "++", FALSE, Var("i"))>>,
             BlockStatement(TRUE, <<
               Stmt(Assign("=", Var("n"), Plus(Var("n"), Lit(Num(1))))),
               ContinueStatement(TRUE, <<>>),
               Stmt(Assign("=", Var("n"), Lit(Num(9))))>>))>>
    [] program = "forincontinue" ->
         \* var n = 0; for (var k in {a: 1, b: 2}) { n = n + 1; continue; n = 9; }
         <<Declare("n", Lit(Num(0))),
           ForIn("k", ObjectExpression(TRUE, <<
               Property("a", "init", Lit(Num(1))), Property("b", "init", Lit(Num(2)))>>),
             <<Stmt(Assign("=", Var("n"), Plus(Var("n"), Lit(Num(1))))),
               ContinueStatement(TRUE, <<>>),
               Stmt(Assign("=", Var("n"), Lit(Num(9))))>>)>>
    [] program = "while" ->        \* var i = 0; while (i < 1) { i++; continue; }
         <<Declare("i", Lit(Num(0))),
           WhileStatement(TRUE, BinaryExpression(TRUE, "<", Var("i"), Lit(Num(1))),
             BlockStatement(TRUE, <<
               Stmt(UpdateExpression(TRUE, "++", FALSE, Var("i"))),
               ContinueStatement(TRUE, <<>>)>>))>>

Programs ==
  {"x", "addOne", "obj", "empty", "async", "native", "if", "with", "array",
   "member", "callee", "global", "uncaught", "throw", "try", "catch",
   "strict", "sloppy", "xxstrict", "accessor", "sealed", "sealedstrict",
   "delete", "deletestrict", "forin", "forinshadow", "forinarray",
   "inputObject", "input", "search", "searchstrict", "exec", "regexp",
   "finally", "tryreturn", "labeltry", "loop", "switch", "switchdefault",
   "construct", "setter", "getterstrict", "arraysetter", "graph",
   "hoist", "clash", "stale", "for", "forincontinue", "while"}

\* The native values the host's init hook hands to a program that uses
\* inputObject: primitives, arrays of up to MaxLength elements, objects of
\* up to two keys, and arrays and objects that hold one of those.
NativeElements == {Num(0), Null}
NativeProperties == {Num(1), Str("")}
NativePrimitives == {Num(1), Str("hi"), Bool(FALSE), Null}
FlatArrays ==
  {NativeArrayOf(items) : items \in UNION {[1..n -> NativeElements] : n \in 0..MaxLength}}
KeyOrders == {<<>>, <<"a">>, <<"a", "0">>, <<"constructor", "length">>}
FlatObjects ==
  UNION {{NativeObjectOf(order, props) :
            props \in [{order[i] : i \in 1..Len(order)} -> NativeProperties]} :
         order \in KeyOrders}
Inner ==
  {NativeArrayOf(<<>>), NativeArrayOf(<<Null>>), NativeObjectOf(<<>>, EmptyMap),
   NativeObjectOf(<<"a">>, [k \in {"a"} |-> Num(1)]),
   NativeArrayOf(<<NativeObjectOf(<<"a">>, [k \in {"a"} |-> NativeArrayOf(<<Num(0)>>)])>>)}
Nested ==
  {NativeArrayOf(<<Num(1), inner>>) : inner \in Inner}
    \cup {NativeObjectOf(<<"a">>, [k \in {"a"} |-> inner]) : inner \in Inner}
NativeValues == NativePrimitives \cup FlatArrays \cup FlatObjects \cup Nested

Seeds(program) ==
  IF program \in {"inputObject", "input"} THEN NativeValues ELSE {NoNative}

\* acorn.parse(code): the Program node of the empty text ends at offset 0,
\* so its `end` is falsy.
Parse(program) == Program(Source(program) # <<>>, Source(program))


(***************************************************************************)
(* The state machine: one interpreter and its host.                        *)
(***************************************************************************)
VARIABLES
  program,       \* the source text the interpreter was constructed with
  stateStack,    \* Interpreter.stateStack
  objs,          \* the heap of InterpreterObjects
  scopes,        \* the Scope objects
  paused_,       \* Interpreter.paused_
  value,         \* Interpreter.value
  getterStep_,   \* Interpreter.getterStep_
  setterStep_,   \* Interpreter.setterStep_
  stateCounter,  \* number of State objects created
  callbacks,     \* frames whose resume callback the host holds
  history,       \* [getterSignals, getterFrames, completed, valueReset, fired, ...]
  op,            \* the last call the host made
  result,        \* the boolean the last step()/run() returned
  error,         \* the message of the error the last call threw, or ""
  suspended,     \* the interpreter just before its last async call
  hostCalls,     \* number of direct getProperty/setProperty calls so far
  entry,         \* what the interpreter was doing when the last call was made
  seed,          \* the native value the host's init hook hands to the program
  native,        \* what the last call returned, if it was pseudoToNative
  given,         \* what the last call was given, if it was nativeToPseudo
  REGEXP_MODE    \* Interpreter['REGEXP_MODE'], set by the host after construction

vars ==
  <<program, stateStack, objs, scopes, paused_, value, getterStep_, setterStep_,
    stateCounter, callbacks, history, op, result, error, suspended, hostCalls,
    entry, seed, native, given, REGEXP_MODE>>

\* The programs the host runs with REGEXP_MODE set, and the values it sets.
RegExpPrograms == {"search", "searchstrict", "exec", "regexp"}
RegExpModes(p) ==
  IF p \in RegExpPrograms THEN {Undef, Num(0), Num(1), Num(2)} ELSE {Undef}

\* The interpreter object as the operators see it.
Interp ==
  [stateStack |-> stateStack, objs |-> objs, scopes |-> scopes, paused_ |-> paused_,
   value |-> value, getterStep_ |-> getterStep_, setterStep_ |-> setterStep_,
   stateCounter |-> stateCounter, callbacks |-> callbacks,
   getterSignals |-> history.getterSignals, getterFrames |-> history.getterFrames,
   completed |-> history.completed, valueReset |-> history.valueReset,
   enumerated |-> history.enumerated, loops |-> history.loops,
   hooks |-> history.hooks, switched |-> history.switched,
   fired |-> history.fired,
   initFunc_ |-> seed, REGEXP_MODE |-> REGEXP_MODE]

\* The interpreter becomes I.
Becomes(I) ==
  /\ stateStack' = I.stateStack
  /\ objs' = I.objs
  /\ scopes' = I.scopes
  /\ paused_' = I.paused_
  /\ value' = I.value
  /\ getterStep_' = I.getterStep_
  /\ setterStep_' = I.setterStep_
  /\ stateCounter' = I.stateCounter
  /\ callbacks' = I.callbacks
  /\ history' = [getterSignals |-> I.getterSignals, getterFrames |-> I.getterFrames,
                 completed |-> I.completed, valueReset |-> I.valueReset,
                 enumerated |-> I.enumerated, loops |-> I.loops,
                 hooks |-> I.hooks, switched |-> I.switched,
                 fired |-> I.fired]

NoInterp == [Blank EXCEPT !.stateCounter = -1]

\* What the interpreter is doing: "terminated", "paused" or "running".
Condition(I) ==
  IF Terminated(I) THEN "terminated" ELSE IF I.paused_ THEN "paused" ELSE "running"

\* The interpreter is I.
Is(I) ==
  /\ stateStack = I.stateStack
  /\ objs = I.objs
  /\ scopes = I.scopes
  /\ paused_ = I.paused_
  /\ value = I.value
  /\ getterStep_ = I.getterStep_
  /\ setterStep_ = I.setterStep_
  /\ stateCounter = I.stateCounter
  /\ callbacks = I.callbacks
  /\ history = [getterSignals |-> I.getterSignals, getterFrames |-> I.getterFrames,
                completed |-> I.completed, valueReset |-> I.valueReset,
                enumerated |-> I.enumerated, loops |-> I.loops,
                hooks |-> I.hooks, switched |-> I.switched,
                fired |-> I.fired]

Init ==
  /\ program \in Programs
  /\ seed \in Seeds(program)
  /\ \E I \in {new_Interpreter(Parse(program), seed)} : Is(I)
  /\ native = NoNative
  /\ given = NoNative
  /\ REGEXP_MODE \in RegExpModes(program)
  /\ op = "new"
  /\ result = FALSE
  /\ error = ""
  /\ suspended = NoInterp
  /\ hostCalls = 0
  /\ entry = "new"

\* The host calls step(); the clock lets it run `budget` step functions.
\* A call of step() or run() ends as r tells: the boolean returned or the
\* error thrown, and the interpreter it leaves.
Returns(r) ==
  /\ Becomes(r.I)
  /\ result' = r.result
  /\ error' = r.msg
  /\ suspended' = IF r.I.paused_ /\ ~paused_ THEN r.pre ELSE suspended
  /\ entry' = Condition(Interp)
  /\ native' = NoNative
  /\ given' = NoNative
  /\ UNCHANGED <<program, hostCalls, seed, REGEXP_MODE>>

Step ==
  \E budget \in 1..MaxMicroSteps :
    /\ op' = "step"
    /\ Returns(this_step(Interp, budget))

\* The host calls run().
\* The loop of run() has ended within MaxRunSteps rounds.
Ended(r) == ~r.exhausted /\ Returns(r)

Run ==
  \E budget \in 1..MaxMicroSteps :
    /\ op' = "run"
    /\ Ended(this_run(Interp, budget))

\* The values the host's async function hands to its callback.
CallbackValues == {Num(1), Str("hi")}

\* The host's async function calls the callback it was given.
Resume ==
  \E v \in CallbackValues :
    /\ callbacks # <<>>
    /\ Becomes([callback(Interp, Head(callbacks), v)
                  EXCEPT !.callbacks = Tail(callbacks), !.fired = Append(@, Head(callbacks))])
    /\ op' = "callback"
    /\ error' = ""
    /\ entry' = Condition(Interp)
    /\ native' = NoNative
    /\ given' = NoNative
    /\ UNCHANGED <<program, result, suspended, hostCalls, seed, REGEXP_MODE>>

\* The programs whose host keeps a callback after it has invoked it.
StalePrograms == {"stale"}

\* The host's async function calls once more a callback it has already
\* invoked: the closure is still state.value = value; paused_ = false.
ResumeAgain ==
  \E v \in CallbackValues, k \in 1..Len(history.fired) :
    /\ program \in StalePrograms
    /\ Becomes(callback(Interp, history.fired[k], v))
    /\ op' = "callback again"
    /\ error' = ""
    /\ entry' = Condition(Interp)
    /\ native' = NoNative
    /\ given' = NoNative
    /\ UNCHANGED <<program, result, suspended, hostCalls, seed, REGEXP_MODE>>

\* The property of the global object the host reads and writes directly.
HostNames == {"g"}

\* The host calls interpreter.getProperty(globalObject, name).
\* A direct call of getProperty or setProperty ends as r tells.
HostReturns(r) == Becomes(r.I) /\ error' = r.msg

HostGetProperty ==
  \E name \in HostNames :
    /\ hostCalls < MaxHostCalls
    /\ name \in DOMAIN objs[GLOBAL_OBJECT].properties
    /\ HostReturns(this_getProperty(Interp, Obj(GLOBAL_OBJECT), name))
    /\ op' = "getProperty"
    /\ hostCalls' = hostCalls + 1
    /\ entry' = Condition(Interp)
    /\ native' = NoNative
    /\ given' = NoNative
    /\ UNCHANGED <<program, result, suspended, seed, REGEXP_MODE>>

\* The host calls interpreter.setProperty(globalObject, name, 7).
HostSetProperty ==
  \E name \in HostNames :
    /\ hostCalls < MaxHostCalls
    /\ name \in DOMAIN objs[GLOBAL_OBJECT].properties
    /\ HostReturns(this_setProperty(Interp, Obj(GLOBAL_OBJECT), name, Num(7), <<>>))
    /\ op' = "setProperty"
    /\ hostCalls' = hostCalls + 1
    /\ entry' = Condition(Interp)
    /\ native' = NoNative
    /\ given' = NoNative
    /\ UNCHANGED <<program, result, suspended, seed, REGEXP_MODE>>

\* The host calls interpreter.pseudoToNative(x), x being interpreter.value
\* or what interpreter.getProperty(globalObject, 'inputObject') returns.
Converted(x, r) ==
  /\ Becomes(x.I)
  /\ given' = NoNative
  /\ native' = IF r.t = "throw" THEN NoNative ELSE r
  /\ error' = IF r.t = "throw" THEN r.msg ELSE ""

HostPseudoToNative ==
  \E from \in {"value", "inputObject"} :
    /\ "inputObject" \in DOMAIN objs[GLOBAL_OBJECT].properties
    /\ LET x == IF from = "value" THEN Ok(Interp, value)
                ELSE this_getProperty(Interp, Obj(GLOBAL_OBJECT), "inputObject")
       IN Converted(x, this_pseudoToNative(x.I, x.ret, <<>>))
    /\ op' = IF from = "value" THEN "pseudoToNative(value)"
             ELSE "pseudoToNative(inputObject)"
    /\ entry' = Condition(Interp)
    /\ UNCHANGED <<program, result, suspended, hostCalls, seed, REGEXP_MODE>>

\* The programs during which the host converts regular expressions, and
\* the regular expressions it converts: /b/ and /a/g after a match.
RoundTripPrograms == {"regexp"}
NativeRegExps == {NativeRegExp("b", "", 0), NativeRegExp("a", "g", 1)}

\* x is what nativeToPseudo returned or threw; n what pseudoToNative made
\* of it.
RoundTripEnds(x, n) ==
  /\ Becomes(x.I)
  /\ native' = IF n.t = "throw" THEN NoNative ELSE n
  /\ error' = IF n.t = "throw" THEN n.msg ELSE ""
BackToNative(x) ==
  RoundTripEnds(x, IF x.thrown # "none" THEN NativeThrow(x.msg)
                   ELSE this_pseudoToNative(x.I, x.ret, <<>>))

\* The host calls interpreter.pseudoToNative(interpreter.nativeToPseudo(r)).
HostRoundTrip ==
  \E r \in NativeRegExps :
    /\ hostCalls < MaxHostCalls
    /\ program \in RoundTripPrograms
    /\ BackToNative(this_nativeToPseudo(Interp, r))
    /\ given' = r
    /\ hostCalls' = hostCalls + 1
    /\ op' = "pseudoToNative(nativeToPseudo(regexp))"
    /\ entry' = Condition(Interp)
    /\ UNCHANGED <<program, result, suspended, seed, REGEXP_MODE>>

\* The programs that build object graphs with cycles and shared objects.
GraphPrograms == {"graph"}

\* The host calls interpreter.pseudoToNative(interpreter.value) on such a
\* graph.
HostConvertGraph ==
  /\ program \in GraphPrograms
  /\ Converted(Ok(Interp, value), this_pseudoToNative(Interp, value, <<>>))
  /\ op' = "pseudoToNative(graph)"
  /\ entry' = Condition(Interp)
  /\ UNCHANGED <<program, result, suspended, hostCalls, seed, REGEXP_MODE>>

Next ==
  \/ Step \/ Run \/ Resume \/ ResumeAgain \/ HostGetProperty \/ HostSetProperty
  \/ HostPseudoToNative \/ HostRoundTrip \/ HostConvertGraph

Spec == Init /\ [][Next]_vars



(***************************************************************************)
(* Properties of run() and step().                                         *)
(***************************************************************************)
\* The bottom frame is the Program frame and it is marked done.
BottomDone(I) ==
  /\ Len(I.stateStack) > 0
  /\ I.stateStack[1].node.type = "Program"
  /\ I.stateStack[1].done

\* C1: run() returns only once the interpreter is paused or step() has
\* reported that no instructions remain, and what it returns is paused_; in
\* a run during which no async function has been called it returns false
\* with the bottom Program frame marked done.  A run that pauses the
\* interpreter leaves the host holding a callback; a run entered with
\* paused_ already set returns true at once, whoever set it.
C1_RunReturnsPaused ==
  [][(op' = "run" /\ error' = "") =>
       /\ result' = paused_'
       /\ paused_' \/ Terminated(Interp')
       /\ (paused_' /\ ~paused_) => callbacks' # <<>>
       /\ suspended' = NoInterp => (~result' /\ BottomDone(Interp'))]_vars

\* run() has returned true: the async call is waiting for its callback.
C1_Witness ==
  /\ op = "run" /\ error = "" /\ entry = "running"
  /\ result /\ paused_ /\ callbacks # <<>>

\* C2: step() returns false exactly when it is called on a program that has
\* terminated; called in any other state, paused ones included, it returns
\* true.
C2_StepFalseIffTerminated ==
  [][(op' = "step" /\ error' = "") => (result' <=> ~Terminated(Interp))]_vars

\* C3: after a step() that returned, the state stack is not empty, whether
\* the program has terminated or not: its bottom frame is the Program frame,
\* and the program has terminated exactly when that frame is alone and done.
C3_StackNeverEmpty ==
  [][(op' = "step" /\ error' = "") =>
       /\ Len(stateStack') > 0
       /\ stateStack'[1].node.type = "Program"
       /\ Terminated(Interp') <=> (Len(stateStack') = 1 /\ stateStack'[1].done)]_vars

\* C3 as stated: after a step() that returned, the state stack is non-empty
\* if and only if the program has not terminated.
C3_StackEmptyIffTerminated ==
  [][(op' = "step" /\ error' = "") =>
       (Len(stateStack') > 0 <=> ~Terminated(Interp'))]_vars

\* The step() that ran the last step function of the program has returned.
C3_Witness ==
  /\ op = "step" /\ error = "" /\ entry = "running" /\ result
  /\ Terminated(Interp) /\ Len(stateStack) = 1

\* C4: a run() called on a program that has terminated returns false and
\* leaves `value` and the state stack as they were.
C4_RunIdempotent ==
  [][(Terminated(Interp) /\ op' = "run") =>
       /\ error' = "" /\ ~result'
       /\ value' = value
       /\ stateStack' = stateStack]_vars

\* run() has returned from a call made after the program had terminated
\* with a value.
C4_Witness ==
  /\ op = "run" /\ entry = "terminated" /\ error = "" /\ ~result
  /\ value = Str("hi")

\* C5: a step() or run() called while the interpreter is paused returns
\* without changing the state stack or `value` and leaves it paused; the
\* stack of a paused interpreter changes only by the callback, which stores
\* its value in the suspended call frame (the top one) and clears paused_.
C5_PausedDoesNotAdvance ==
  [][paused_ =>
       /\ op' \in {"step", "run"} =>
            /\ error' = "" /\ paused_'
            /\ stateStack' = stateStack
            /\ value' = value
       /\ (stateStack' # stateStack \/ value' # value \/ ~paused_') =>
            /\ op' = "callback" /\ ~paused_' /\ value' = value
            /\ \E v \in CallbackValues :
                 stateStack' = [stateStack EXCEPT ![Len(stateStack)].value = v]]_vars

\* What holds of C5 when a callback is invoked again after it has fired: a
\* step() or run() on a paused interpreter changes nothing, the callback of
\* the pending call stores its value in the top frame and clears paused_, and
\* a callback that fires again changes neither the stack nor `value` (it
\* does clear paused_, which lets the next step() advance).
PausedDoesNotAdvanceButStale ==
  [][paused_ =>
       /\ op' \in {"step", "run"} =>
            /\ error' = "" /\ paused_'
            /\ stateStack' = stateStack
            /\ value' = value
       /\ op' = "callback again" =>
            /\ ~paused_' /\ stateStack' = stateStack /\ value' = value
       /\ (stateStack' # stateStack \/ value' # value) =>
            /\ op' = "callback" /\ ~paused_' /\ value' = value
            /\ \E v \in CallbackValues :
                 stateStack' = [stateStack EXCEPT ![Len(stateStack)].value = v]]_vars

\* step() has returned from a call made while the interpreter was paused.
C5_Witness ==
  /\ op = "step" /\ entry = "paused" /\ error = "" /\ result /\ paused_

(***************************************************************************)
(* Asynchronous calls.                                                     *)
(***************************************************************************)
\* The step function run on I when the function about to be called there is
\* a native function that returns v (the function object is put back as it
\* was afterwards, so that the heaps can be compared).
SyncReturn(I, v) ==
  LET f == Top(I).func_.v
      J == [I EXCEPT !.objs[f].asyncFunc = "",
                     !.objs[f].nativeFunc =
                        IF v = Num(1) THEN "returnOne" ELSE "returnHi"]
      r == this_stepFunctions_(J)
  IN [r.I EXCEPT !.objs[f] = I.objs[f]]

\* C6: once the callback of the async call the interpreter is paused on has
\* deposited v (the resumption), the state stack,
\* the heap, the scopes, `value` and paused_ are those the interpreter would
\* have had, had the call been a native call returning v at the point where
\* the interpreter was suspended.
C6_ResumeAsSynchronous ==
  [][(op' = "callback" /\ paused_) =>
       \E v \in CallbackValues :
         LET S == SyncReturn(suspended, v)
         IN /\ Top(S).value = v
            /\ stateStack' = S.stateStack
            /\ objs' = S.objs
            /\ scopes' = S.scopes
            /\ value' = S.value
            /\ paused_' = S.paused_]_vars

\* The callback has deposited 'hi' in the suspended call frame.
C6_Witness ==
  /\ op = "callback" /\ ~paused_ /\ suspended # NoInterp
  /\ Top(Interp).node.type = "CallExpression"
  /\ Top(Interp).value = Str("hi")

(***************************************************************************)
(* The value of a program.                                                 *)
(***************************************************************************)
\* The value of the last expression statement that has completed.
LastCompleted == history.completed[Len(history.completed)]

C8_ArrayLength ==
  \A o \in 1..Len(objs) :
    objs[o].class = "Array" =>
      \A i \in IndicesFrom(objs[o], 0) : objs[o].properties["length"].v >= i + 1

OnStack(type) == \E i \in 1..Len(stateStack) : stateStack[i].node.type = type

\* The top frame is a throw statement whose argument has been evaluated.
ThrowPending ==
  /\ stateStack # <<>>
  /\ Top(Interp).node.type = "ThrowStatement"
  /\ Top(Interp).done_

\* The host calls step() on an interpreter that can run: the step function
\* of the top frame runs, and no other (user code has locations).
Stepping == op' = "step" /\ ~paused_

\* C11: when a throw statement outside every try statement throws, the
\* interpreter terminates: the Program frame is left alone on the stack and
\* is marked done, and step() raises the string form of the thrown
\* value (which is not an interpreted Error) to the host.
C11_UnhandledThrowTerminates ==
  [][(ThrowPending /\ ~OnStack("TryStatement") /\ Stepping) =>
        /\ Len(stateStack') = 1
        /\ stateStack'[1].node.type = "Program" /\ stateStack'[1].done
        /\ error' = ToName(Top(Interp).value)]_vars

\* The interpreted error that throwException makes for a host TypeError
\* with the text `message`.
IsTypeError(I, v, message) ==
  /\ isa(I, v, TYPE_ERROR)
  /\ this_getProperty(I, v, "name").ret = Str("TypeError")
  /\ "message" \in DOMAIN I.objs[v.v].properties
  /\ I.objs[v.v].properties["message"] = Str(message)

NullRead == "Cannot read property 'x' of null"
NullReadInTry == {"try"}

\* C12: the TypeError of reading a property of null inside a try block is
\* not raised to the host: it is stored as a THROW completion on the
\* nearest enclosing TryStatement frame, which is then the top of the stack;
\* the catch clause gets it as an error object named 'TypeError' whose
\* message is the host text and binds its parameter to it in the scope of
\* its body; and the program runs on to the end, where the value of
\* `e.name + ':' + e.message` is 'TypeError:' followed by that text.
\* NullReadInTry names the programs whose try block reads a property of
\* null; the try statements of the others store other completions.
C12_HostErrorCaught ==
  /\ \A i \in {j \in 1..Len(stateStack) : program \in NullReadInTry} :
       LET f == stateStack[i]
       IN /\ (f.node.type = "TryStatement" /\ f.cv # <<>>) =>
                /\ i = Len(stateStack)
                /\ f.cv[1].type = THROW
                /\ IsTypeError(Interp, f.cv[1].value, NullRead)
                /\ op \in {"step", "run"} => error = ""
          /\ f.node.type = "CatchClause" =>
                /\ IsTypeError(Interp, f.throwValue, NullRead)
                /\ (f.done_ /\ i < Len(stateStack)) =>
                      LET scope == scopes[stateStack[i + 1].scope]
                      IN /\ scope.parentScope = f.scope
                         /\ f.node.param \in DOMAIN objs[scope.object].properties
                         /\ objs[scope.object].properties[f.node.param] = f.throwValue
  /\ (program = "try" /\ Terminated(Interp) /\ op \in {"step", "run"}) =>
        /\ error = ""
        /\ value = Str("TypeError:" \o NullRead)

\* The program `try { null.x } catch (e) { e.name + ':' + e.message }` has
\* ended without a host error: its catch clause has run.
C12_Witness ==
  /\ program = "try" /\ op = "run" /\ error = "" /\ Terminated(Interp)
  /\ value = Str("TypeError:" \o NullRead)
  /\ \E s \in 1..Len(scopes) :
       /\ "e" \in DOMAIN objs[scopes[s].object].properties
       /\ IsTypeError(Interp, objs[scopes[s].object].properties["e"], NullRead)

\* C13: when a throw statement inside a try block throws, the thrown value
\* reaches the enclosing TryStatement unchanged, as the value of the THROW
\* completion that its catch clause will bind, and no error is raised to
\* the host.
C13_ThrownValueBound ==
  [][(ThrowPending /\ OnStack("TryStatement") /\ Stepping) =>
        /\ error' = ""
        /\ stateStack' # <<>>
        /\ stateStack'[Len(stateStack')].node.type = "TryStatement"
        /\ stateStack'[Len(stateStack')].cv # <<>>
        /\ stateStack'[Len(stateStack')].cv[1].value = Top(Interp).value]_vars

(***************************************************************************)
(* Global bindings.                                                        *)
(***************************************************************************)
GlobalKeys == DOMAIN objs[GLOBAL_OBJECT].properties
\* The own keys of the global object of a program that declares nothing.
InitialKeys == DOMAIN new_Interpreter(Parse("empty"), NoNative).objs[GLOBAL_OBJECT].properties
\* The names hoisted from the declarations of the program.
Hoisted == {Decls(Parse(program))[i].name : i \in 1..Len(Decls(Parse(program)))}
\* The names the statements of the program write as `this.<name> = ...`.
IsExplicitWrite(s) ==
  /\ s.type = "ExpressionStatement"
  /\ s.expression.type = "AssignmentExpression"
  /\ s.expression.left.type = "MemberExpression"
  /\ s.expression.left.object.type = "ThisExpression"
ExplicitWrites ==
  {Source(program)[i].expression.left.property.name :
     i \in {j \in 1..Len(Source(program)) : IsExplicitWrite(Source(program)[j])}}
\* The keys the global object inherits from its prototype.
InheritedKeys == DOMAIN objs[objs[GLOBAL_OBJECT].proto].properties
StrictProgram == scopes[GLOBAL_SCOPE].strict

\* No scope on the chain of the top frame binds `name`, and the global
\* object neither has nor inherits it.
Unbound(name) ==
  /\ ScopeWith(Interp, Top(Interp).scope, name) = GLOBAL_SCOPE
  /\ Owner(objs, GLOBAL_OBJECT, name) = 0
NotDefined(name) == "ReferenceError: " \o name \o " is not defined"

\* The top frame is an assignment `name = ...` whose right side has been
\* evaluated: the next step stores the value.
AssignPending(name) ==
  /\ stateStack # <<>>
  /\ Top(Interp).node.type = "AssignmentExpression"
  /\ Top(Interp).node.operator = "="
  /\ Top(Interp).doneRight_ /\ ~Top(Interp).doneSetter_
  /\ Top(Interp).leftReference_ = Ref(SCOPE_REFERENCE, name)

\* The top frame is the identifier `name` read as the right side of the
\* assignment `name = name`.
SelfReadPending(name) ==
  /\ Len(stateStack) > 1
  /\ Top(Interp).node.type = "Identifier" /\ Top(Interp).node.name = name
  /\ ~Top(Interp).components
  /\ LET a == stateStack[Len(stateStack) - 1]
     IN /\ a.node.type = "AssignmentExpression" /\ a.node.operator = "="
        /\ a.doneRight_
        /\ a.leftReference_ = Ref(SCOPE_REFERENCE, name)

Names == {"x", "y", "v", "p", "constructor"}

IsSelfAssign(s) ==
  /\ s.type = "ExpressionStatement"
  /\ s.expression.type = "AssignmentExpression"
  /\ s.expression.left.type = "Identifier"
  /\ s.expression.right.type = "Identifier"
  /\ s.expression.left.name = s.expression.right.name
SelfAssigned ==
  {Source(program)[i].expression.left.name :
     i \in {j \in 1..Len(Source(program)) : IsSelfAssign(Source(program)[j])}}

\* C15 as stated: when a program with the statement `x = x` on an unbound
\* x has ended, the global object has the key x if the code is non-strict
\* and has not if it is strict.
C15_SelfAssignCreatesGlobal ==
  \A name \in SelfAssigned :
    (Terminated(Interp) /\ name \notin Hoisted) =>
       (name \in GlobalKeys <=> ~StrictProgram)

\* C15: the read of x in `x = x`, x unbound, raises ReferenceError in
\* strict and in non-strict code and creates no binding; an assignment
\* whose right side has a value creates the global binding of an unbound
\* identifier in non-strict code and raises ReferenceError in strict code.
C15_UnboundAssignment ==
  [][\A name \in Names :
       /\ (/\ SelfReadPending(name) /\ Unbound(name)
           /\ ~OnStack("TryStatement") /\ Stepping) =>
             /\ error' = NotDefined(name)
             /\ name \notin GlobalKeys'
       /\ (/\ AssignPending(name) /\ Unbound(name)
           /\ ~OnStack("TryStatement") /\ Stepping) =>
             IF getScope(Interp).strict
               THEN error' = NotDefined(name) /\ name \notin GlobalKeys'
               ELSE /\ error' = ""
                    /\ name \in GlobalKeys'
                    /\ objs'[GLOBAL_OBJECT].properties[name] = Top(Interp).value]_vars

\* The non-strict program `y = 1; x = x;` has ended: y is a global, x is
\* not, and the read of x has raised ReferenceError.
C15_Witness ==
  /\ program = "sloppy" /\ ~StrictProgram /\ Terminated(Interp)
  /\ error = NotDefined("x")
  /\ "y" \in GlobalKeys /\ objs[GLOBAL_OBJECT].properties["y"] = Num(1)
  /\ "x" \notin GlobalKeys

(***************************************************************************)
(* Own properties: accessors, extensibility, deletion.                     *)
(***************************************************************************)
OwnKeys(o) == DOMAIN objs[o].properties

\* C16: in every state, every key of the getter map or of the setter map
\* of an object is a key of its property map.
C16_AccessorKeysAreProperties ==
  \A o \in 1..Len(objs) :
    (DOMAIN objs[o].getter \cup DOMAIN objs[o].setter) \subseteq OwnKeys(o)

\* The top frame is the call of the native Object.defineProperty on object
\* o and key k, with its arguments evaluated: the next step function runs it.
NativeDefinePending(o, k) ==
  /\ stateStack # <<>>
  /\ Top(Interp).node.type = "CallExpression"
  /\ IsObj(Top(Interp).func_)
  /\ objs[Top(Interp).func_.v].nativeFunc = "defineProperty"
  /\ ~Top(Interp).doneArgs_
  /\ Top(Interp).n_ = 3 /\ Len(Top(Interp).arguments_) = 2
  /\ Top(Interp).arguments_[1] = Obj(o)
  /\ ToName(Top(Interp).arguments_[2]) = k

\* C17: no step adds an own key to an object on which preventExtensions
\* has been set, and a definition of a key that such an object has, and
\* whose slot is configurable, is not rejected.
C17_NonExtensibleKeys ==
  [][\A o \in 1..Len(objs) :
       objs[o].preventExtensions =>
         /\ OwnKeys(o)' \subseteq OwnKeys(o)
         /\ \A k \in OwnKeys(o) :
              (/\ NativeDefinePending(o, k) /\ objs[o].attrs[k].configurable
               /\ Stepping) => error' = ""]_vars

\* The top frame is a delete expression whose operand has been evaluated.
DeletePending ==
  /\ Len(stateStack) > 1
  /\ Top(Interp).node.type = "UnaryExpression"
  /\ Top(Interp).node.operator = "delete"
  /\ Top(Interp).done_

\* The value the step hands to the frame below the top one.
Delivered == stateStack'[Len(stateStack) - 1].value

CannotDelete(name) == "TypeError: Cannot delete property '" \o name \o "' of '[object]'"

\* C18: the step of `delete obj.p`, p an own non-configurable property of
\* obj, leaves obj as it is and yields false in non-strict code, raises
\* TypeError in strict code; the step of a delete whose operand is not a
\* reference yields true and changes no object.
C18_DeleteNonConfigurable ==
  [][(DeletePending /\ ~OnStack("TryStatement") /\ Stepping) =>
       LET v == Top(Interp).value
           o == RefBase(v).v
           p == RefName(v)
       IN /\ ~IsRef(v) =>
               /\ error' = "" /\ Delivered = Bool(TRUE) /\ objs' = objs
          /\ (/\ IsRef(v) /\ IsObj(RefBase(v)) /\ p \in OwnKeys(o)
              /\ ~objs[o].attrs[p].configurable) =>
               IF scopes[Top(Interp).scope].strict
                 THEN /\ error' = CannotDelete(p)
                      /\ objs'[o] = objs[o]
                 ELSE /\ error' = "" /\ Delivered = Bool(FALSE)
                      /\ objs' = objs]_vars

\* The object that the global variable `o` of the program holds.
TheObject == objs[GLOBAL_OBJECT].properties["o"].v

\* The non-strict program has ended: `delete o.p` gave false and left the
\* non-configurable p, `delete 1` gave true, `delete o.q` gave true and
\* removed the configurable q.
C18_Witness ==
  /\ program = "delete" /\ Terminated(Interp) /\ ~StrictProgram
  /\ Len(history.completed) >= 3
  /\ SubSeq(history.completed, Len(history.completed) - 2, Len(history.completed))
       = <<Bool(FALSE), Bool(TRUE), Bool(TRUE)>>
  /\ OwnKeys(TheObject) = {"p"}
  /\ objs[TheObject].properties["p"] = Num(1)

(***************************************************************************)
(* for-in enumeration.                                                     *)
(***************************************************************************)
\* The names handed to the loop bodies so far, and the loops begun.
Enumerated == history.enumerated
LoopOf(loops, e) == CHOOSE l \in {loops[i] : i \in 1..Len(loops)} : l.loop = e.loop

\* The objects of the loop's prototype chain that are nearer to the
\* iterated object than the object the name e was found on.
Nearer(l, e) ==
  IF IsObj(e.object)
    THEN {l.chain[j] : j \in {i \in 1..Len(l.chain) :
                                \A k \in 1..i : l.chain[k] # e.object.v}}
    ELSE {}

\* A loop produces no name twice, and the array indices of one object in
\* ascending order.
OnceAndInOrder(names) ==
  \A i, j \in 1..Len(names) :
    (i < j /\ names[i].loop = names[j].loop) =>
      /\ names[i].name # names[j].name
      /\ (/\ names[i].object = names[j].object
          /\ legalArrayIndex(names[i].name) # -1
          /\ legalArrayIndex(names[j].name) # -1) =>
           legalArrayIndex(names[i].name) < legalArrayIndex(names[j].name)

\* A step of step() hands a name to the loop body: the name and its loop.
Produces == Stepping /\ history'.enumerated # history.enumerated
Produced == history'.enumerated[Len(history'.enumerated)]
ProducedIn == LoopOf(history'.loops, Produced)

\* The name comes from an object that has it, enumerable, when it is
\* produced.
ProducedFromOwner ==
  IsObj(Produced.object) =>
    /\ Produced.name \in DOMAIN objs'[Produced.object.v].properties
    /\ objs'[Produced.object.v].attrs[Produced.name].enumerable

NamesOf(names) == [i \in 1..Len(names) |-> names[i].name]

RECURSIVE StructurallyEqual(_, _)
StructurallyEqual(a, b) ==
  CASE a.t = "Array" ->
         /\ b.t = "Array" /\ a.length = b.length /\ DOMAIN a.elems = DOMAIN b.elems
         /\ \A i \in DOMAIN a.elems : StructurallyEqual(a.elems[i], b.elems[i])
    [] a.t = "Object" ->
         /\ b.t = "Object" /\ DOMAIN a.props = DOMAIN b.props
         /\ \A k \in DOMAIN a.props : StructurallyEqual(a.props[k], b.props[k])
    [] OTHER -> a = b

\* The interpreted copy of the hook's native value.
TheCopy == objs[GLOBAL_OBJECT].properties["inputObject"]

\* The native value v after `v.b = 2`, as the host would compute it: a new
\* key on an object, nothing on an array or a primitive.
Extended(v) == IF v.t = "Object" THEN WithKey(v, "b", Num(2)) ELSE v

\* The program has extended the copy: `inputObject.b = 2` has set b.
HasExtended == IsObj(TheCopy) /\ "b" \in DOMAIN objs[TheCopy.v].properties

\* C20: pseudoToNative(nativeToPseudo(v)) is structurally equal to the
\* JSON-style native value v, whether the host takes the copy from the
\* global object or from the program's `value`, and is v with b = 2 once the
\* program has run `inputObject.b = 2`.
C20_RoundTrip ==
  (/\ op \in {"pseudoToNative(value)", "pseudoToNative(inputObject)"}
   /\ op = "pseudoToNative(value)" => value = TheCopy) =>
    /\ error = ""
    /\ StructurallyEqual(native, IF HasExtended THEN Extended(seed) ELSE seed)

\* The test's case: the hook handed {a: 1}, the program has run to its end
\* and pseudoToNative(interpreter.value) is {a: 1, b: 2}.
C20_Witness ==
  /\ program = "inputObject" /\ op = "pseudoToNative(value)" /\ entry = "terminated"
  /\ seed = NativeObjectOf(<<"a">>, [k \in {"a"} |-> Num(1)])
  /\ native = NativeObjectOf(<<"a", "b">>, [k \in {"a", "b"} |-> IF k = "a" THEN Num(1) ELSE Num(2)])

(***************************************************************************)
(* Regular expressions.                                                    *)
(***************************************************************************)
\* The host has just converted a regular expression there and back.
RoundTripped == op = "pseudoToNative(nativeToPseudo(regexp))" /\ given.t = "RegExp"

\* C21: for every host regular expression r, pseudoToNative(nativeToPseudo(r))
\* returns a regular expression with the same source, the same flags and
\* the same lastIndex as r.
C21_RegExpRoundTrip ==
  RoundTripped =>
    /\ error = ""
    /\ native.t = "RegExp"
    /\ native.source = given.source
    /\ native.flags = given.flags
    /\ native.lastIndex = given.lastIndex

(***************************************************************************)
(* The init hook.                                                          *)
(***************************************************************************)
\* The invocations of the init hook so far.
Hooks == history.hooks

\* The global names that initGlobal installs natively.
NativeBuiltins ==
  {"undefined", "this", "Object", "Array", "String", "RegExp", "Error",
   "RangeError", "ReferenceError", "SyntaxError", "TypeError"}

\* The hook has been invoked exactly once, with the global object, before
\* any State object existed.
HookedOnce ==
  /\ Len(Hooks) = 1
  /\ Hooks[1].globalObject = Obj(scopes[GLOBAL_SCOPE].object)
  /\ Hooks[1].stateCounter = 0

\* C22: during construction the init hook is invoked exactly once, with the
\* interpreter and its global object, after the built-ins have been
\* installed and before any step of the user program executes: the
\* built-in objects have, when the hook is invoked, every property they
\* have when construction ends.
C22_HookAfterBuiltins ==
  /\ HookedOnce
  /\ op = "new" =>
       \A id \in 2..Len(Hooks[1].keys) :
         DOMAIN objs[id].properties \subseteq Hooks[1].keys[id]

\* C22, amended: the hook is invoked exactly once, with the global object,
\* before anything is stepped, after the native built-ins have been
\* installed by initGlobal (all of its objects exist, the global names are
\* bound, Object.defineProperty, String.prototype.search and
\* RegExp.prototype.exec are there) and before the polyfills have run
\* (RegExp.prototype has no `test` yet).
C22_HookAfterNatives ==
  /\ HookedOnce
  /\ Len(Hooks[1].keys) = TYPE_ERROR + 2
  /\ NativeBuiltins \subseteq Hooks[1].keys[GLOBAL_OBJECT]
  /\ "defineProperty" \in Hooks[1].keys[OBJECT]
  /\ "search" \in Hooks[1].keys[STRING_PROTO]
  /\ "exec" \in Hooks[1].keys[REGEXP_PROTO]
  /\ "test" \notin Hooks[1].keys[REGEXP_PROTO]
  /\ {"af", "nf"} \cap Hooks[1].keys[GLOBAL_OBJECT] = {}

\* The user program is being stepped: the hook's functions are on the
\* global object, and the polyfill of RegExp.prototype.test has run.
C22_Witness ==
  /\ op = "step" /\ history.completed # <<>>
  /\ Len(Hooks) = 1
  /\ {"af", "nf"} \subseteq DOMAIN objs[GLOBAL_OBJECT].properties
  /\ "test" \in DOMAIN objs[REGEXP_PROTO].properties

\* The messages of the Error that maybeThrowRegExp raises, for the regular
\* expressions the programs hand to search and exec.
NotSupported ==
  {"Regular expressions not supported: " \o x : x \in {"/b/", "/(?:)/", "null"}}

\* The programs that reach a call of String.prototype.search or of
\* RegExp.prototype.exec.
RegExpCalls == {"search", "searchstrict", "exec"}

\* C23: with REGEXP_MODE = 0 every regex-consuming operation throws an
\* interpreted Error 'Regular expressions not supported' at its call site
\* and the interpreter is not left paused by the failed call: the host sees
\* no other error than that one (unhandled), the catch clause around the
\* call receives it, and paused_ is FALSE.
C23_RegExpDisabled ==
  (REGEXP_MODE = Num(0) /\ program \in RegExpCalls /\ op \in {"step", "run"}) =>
    /\ ~paused_
    /\ error # "" => error \in {"Error: " \o m : m \in NotSupported}
    /\ (program = "searchstrict" /\ Terminated(Interp)) =>
         value \in {Str(m) : m \in NotSupported}

\* The message of the Error that vmCall raises for 'ab'.search('b').
RegExpTimeout == "RegExp Timeout: /b/"

\* v is an interpreted Error (not of a subclass) with the given message.
IsPlainError(I, v, message) ==
  /\ IsObj(v)
  /\ I.objs[v.v].proto = I.objs[ERROR].properties["prototype"].v
  /\ "message" \in DOMAIN I.objs[v.v].properties
  /\ I.objs[v.v].properties["message"] = Str(message)

\* The program 'use strict'; try { 'ab'.search('b'); } catch (e) { e.message; }
\* under REGEXP_MODE = 2, in the hands of step() or run().
Sandboxed ==
  program = "searchstrict" /\ REGEXP_MODE = Num(2) /\ op \in {"step", "run"}

\* The try statement holds the completion thrown from the call of search.
TimeoutPending ==
  /\ stateStack # <<>>
  /\ Top(Interp).node.type = "TryStatement"
  /\ Top(Interp).cv # <<>>

Depth == Len(stateStack)
TopFrame == stateStack[Depth]
IsTry(frame) == frame.node.type = "TryStatement"

\* The step function of a try statement is about to enter the handler, to
\* enter the finalizer, or to pop the frame.
TryEntersHandler(frame) ==
  /\ IsTry(frame) /\ frame.doneBlock_
  /\ frame.cv # <<>> /\ frame.cv[1].type = THROW
  /\ ~frame.doneHandler_ /\ frame.node.handler # <<>>
TryEntersFinalizer(frame) ==
  /\ IsTry(frame) /\ frame.doneBlock_ /\ ~TryEntersHandler(frame)
  /\ ~frame.doneFinalizer_ /\ frame.node.finalizer # <<>>
TryPops(frame) ==
  /\ IsTry(frame) /\ frame.doneBlock_
  /\ ~TryEntersHandler(frame) /\ ~TryEntersFinalizer(frame)

\* The stack after the step is the stack before it, cut above frame i, and
\* frame i has kept its identity.
CutTo(i) ==
  /\ Len(stateStack') = i
  /\ \A j \in 1..(i - 1) : stateStack'[j] = stateStack[j]
  /\ i > 0 => stateStack'[i].id = stateStack[i].id

\* No completion passes a try statement whose block has been entered: the
\* frame stays on the stack until its own step function pops it.
TryStops ==
  \A i \in 1..(Depth - 1) :
    (IsTry(stateStack[i]) /\ stateStack[i].doneBlock_) =>
      /\ Len(stateStack') >= i
      /\ stateStack'[i].id = stateStack[i].id
      /\ (Len(stateStack') = i /\ stateStack'[i].cv # stateStack[i].cv) =>
           /\ stateStack'[i].cv # <<>>
           /\ \A j \in 1..(i - 1) : stateStack'[j] = stateStack[j]

\* The handler is entered for a THROW that the block raised (neither the
\* handler nor the finalizer has been entered before), and is handed the
\* value thrown.
HandlerForBlock ==
  (Depth > 0 /\ TryEntersHandler(TopFrame)) =>
    /\ ~TopFrame.doneFinalizer_
    /\ Len(stateStack') = Depth + 1
    /\ stateStack'[Depth + 1].node = TopFrame.node.handler[1]
    /\ stateStack'[Depth + 1].throwValue = TopFrame.cv[1].value
    /\ stateStack'[Depth].doneHandler_ /\ stateStack'[Depth].cv = <<>>

\* The finalizer is entered once, and the frame is popped only after it.
FinalizerOnce ==
  /\ (Depth > 0 /\ TryEntersFinalizer(TopFrame)) =>
       /\ Len(stateStack') = Depth + 1
       /\ stateStack'[Depth + 1].node = TopFrame.node.finalizer[1]
       /\ stateStack'[Depth].doneFinalizer_
  /\ (Depth > 0 /\ TryPops(TopFrame)) =>
       (TopFrame.node.finalizer # <<>> => TopFrame.doneFinalizer_)

\* On popping, the completion that survives is raised again with its type,
\* value and label from the frame below; no completion, no unwinding.
Reraised ==
  (Depth > 0 /\ TryPops(TopFrame)) =>
    IF TopFrame.cv = <<>> THEN CutTo(Depth - 1) /\ error' = ""
    ELSE LET cv == TopFrame.cv[1]
             r == unwind(Pop(Interp), cv.type, cv.value, cv.label)
         IN stateStack' = r.I.stateStack /\ error' = r.msg

\* C25 as stated: a try statement captures every completion that leaves
\* its block or its handler; its handler runs only for a THROW raised in
\* the block, at most once; its finalizer then runs exactly once before the
\* frame is popped; and on popping the surviving completion is re-raised
\* with its type, value and label.
C25_TryCompletions ==
  [][Stepping => (TryStops /\ HandlerForBlock /\ FinalizerOnce /\ Reraised)]_vars

\* What remains of C25 when the handler may also be entered for a THROW
\* that the finalizer raised.
TryCompletionsButHandler ==
  [][Stepping =>
       /\ TryStops /\ FinalizerOnce /\ Reraised
       /\ (Depth > 0 /\ TryEntersHandler(TopFrame) /\ ~TopFrame.doneFinalizer_)
            => HandlerForBlock]_vars

IsCall(frame) == frame.node.type \in {"CallExpression", "NewExpression"}
Completion(type, v, label) == [type |-> type, value |-> v, label |-> label]

\* The completion that the step function of the top frame raises, if it
\* raises one that is not a THROW, and the depth from which it unwinds: a
\* return, break or continue statement unwinds from its own frame, a try
\* statement pops its frame and unwinds from the frame below.  The frame
\* is one of user code, so that step() runs its step function and no other.
ReturnReady(frame) ==
  frame.node.type = "ReturnStatement" /\ (frame.node.argument = <<>> \/ frame.done_)
Raises ==
  /\ Depth > 0 /\ TopFrame.node.end
  /\ \/ ReturnReady(TopFrame)
     \/ TopFrame.node.type \in {"BreakStatement", "ContinueStatement"}
     \/ TryPops(TopFrame) /\ TopFrame.cv # <<>> /\ TopFrame.cv[1].type # THROW
LabelOf(node) == IF node.label = <<>> THEN "" ELSE node.label[1]
Raised ==
  CASE ReturnReady(TopFrame) -> Completion(RETURN, TopFrame.value, "")
    [] TopFrame.node.type = "BreakStatement" ->
         Completion(BREAK, Undef, LabelOf(TopFrame.node))
    [] TopFrame.node.type = "ContinueStatement" ->
         Completion(CONTINUE, Undef, LabelOf(TopFrame.node))
    [] OTHER -> TopFrame.cv[1]
RaisedFrom == IF IsTry(TopFrame) THEN Depth - 1 ELSE Depth

\* Frame `frame` is the target of a break or a continue: an unlabeled break
\* targets a loop or a switch, an unlabeled continue a loop, a labeled
\* break a frame that has the label, a labeled continue a loop that has it.
Absorbs(frame, c) ==
  CASE c.type = BREAK ->
         IF c.label # "" THEN InLabels(frame.labels, c.label)
                         ELSE frame.isLoop \/ frame.isSwitch
    [] c.type = CONTINUE ->
         frame.isLoop /\ (c.label = "" \/ InLabels(frame.labels, c.label))
    [] OTHER -> FALSE

\* The frames at or below depth m that a completion c does not pass, and
\* the nearest of them (0: none).
Stoppers(m, c) ==
  {i \in 1..m : IsCall(stateStack[i]) \/ IsTry(stateStack[i])
                  \/ stateStack[i].node.type = "Program" \/ Absorbs(stateStack[i], c)}
Nearest(m, c) ==
  IF Stoppers(m, c) = {} THEN 0
  ELSE CHOOSE i \in Stoppers(m, c) : \A j \in Stoppers(m, c) : j <= i

\* The completion raised by the coming step reaches a call frame.
ReachesCall == Raises /\ Nearest(RaisedFrom, Raised) > 0
                      /\ IsCall(stateStack[Nearest(RaisedFrom, Raised)])

UnsyntacticError == "Error: Unsynatctic break/continue not rejected by Acorn"

\* C26: a RETURN that no try statement captures pops every frame above the
\* nearest call frame, stores its value as that frame's value without
\* popping it and leaves the frames below unchanged; a BREAK or CONTINUE
\* that reaches a call frame is an error raised to the host.
C26_ReturnToCall ==
  [][(Stepping /\ ReachesCall) =>
       LET k == Nearest(RaisedFrom, Raised)
       IN IF Raised.type = RETURN
            THEN /\ CutTo(k)
                 /\ stateStack'[k] = [stateStack[k] EXCEPT !.value = Raised.value]
            ELSE error' = UnsyntacticError]_vars

\* The return statement of addOne(1) has handed 2 to the frame of the call,
\* which is now on top of the stack.
C26_Witness ==
  /\ program = "addOne" /\ op = "step" /\ error = ""
  /\ Depth = 3 /\ IsCall(TopFrame) /\ TopFrame.doneExec_
  /\ TopFrame.value = Num(2)

\* The break of `a: try { break a; } finally { 3; }` inside g has reached
\* the frame of the call of g.
BreakAtCall ==
  /\ program = "labeltry" /\ op = "step" /\ error = UnsyntacticError
  /\ Depth > 0 /\ IsCall(TopFrame)

\* The bottom frame of the stack is the frame of the program.
ProgramAtBottom(stack) == Len(stack) >= 1 /\ stack[1].node.type = "Program"

\* C27: in every state after construction the state stack has at least one
\* frame and its bottom frame is the Program frame, the same one throughout:
\* no step function, no unwind and no call of the host pops or replaces it,
\* and the program has terminated exactly when that frame is on top and is
\* marked done.
C27_ProgramFrameStays ==
  [][/\ ProgramAtBottom(stateStack) /\ ProgramAtBottom(stateStack')
     /\ stateStack'[1].id = stateStack[1].id
     /\ Terminated(Interp') <=> (Len(stateStack') = 1 /\ stateStack'[1].done)]_vars

\* The TypeError of `1; null.x;` has unwound the whole stack and has been
\* raised to the host: the Program frame is left, marked done.
C27_Witness ==
  /\ program = "uncaught" /\ op \in {"step", "run"}
  /\ error = "TypeError: " \o NullRead
  /\ Len(stateStack) = 1 /\ stateStack[1].node.type = "Program" /\ stateStack[1].done

\* The target of the break or continue c that the coming step raises: the
\* nearest frame that absorbs it.  A try statement that re-raises a labeled
\* break is itself the target when it carries the label (the labels of
\* `a: try { break a; } finally { }` are on the frame of the try statement).
Target(c) ==
  IF IsTry(TopFrame) /\ Absorbs(TopFrame, c) THEN Depth ELSE Nearest(RaisedFrom, c)

\* The coming step raises a break or a continue that nothing stands in the
\* way of: no try statement captures it and no call frame is reached
\* before its target.
Jumps ==
  /\ Raises /\ Raised.type \in {BREAK, CONTINUE}
  /\ Target(Raised) > 0
  /\ Absorbs(stateStack[Target(Raised)], Raised)
  /\ ~IsCall(stateStack[Target(Raised)])
  /\ Target(Raised) = Depth \/ ~IsTry(stateStack[Target(Raised)])

\* A break pops its target and every frame above it; a continue pops every
\* frame above its target and leaves the target as it is.
Jumped ==
  LET k == Target(Raised)
  IN /\ error' = ""
     /\ IF Raised.type = BREAK THEN CutTo(k - 1)
        ELSE CutTo(k) /\ stateStack'[k] = stateStack[k]

\* C28 as stated: an unlabeled break pops frames up to and including the
\* nearest loop or switch frame, a labeled break up to and including the
\* nearest frame that has the label; an unlabeled continue stops at the
\* nearest loop frame and leaves it on the stack, a labeled continue at the
\* nearest loop frame that has the label.
C28_BreakContinueTargets ==
  [][(Stepping /\ Jumps) => Jumped]_vars

\* What remains of C28 when the labeled statement is not a try statement.
JumpsButLabeledTry ==
  [][(Stepping /\ Jumps /\ ~IsTry(TopFrame)) => Jumped]_vars

\* The coming step finishes a call of user code: the function has been
\* executed and the frame of the call is on top, above the frame that
\* waits for its value.
CallCompletes ==
  /\ Depth > 1 /\ IsCall(TopFrame) /\ TopFrame.node.end /\ TopFrame.doneExec_

\* The step has popped the frame of the call and has handed v to the frame
\* below.
Evaluated(v) ==
  /\ CutTo(Depth - 1)
  /\ stateStack'[Depth - 1] = [stateStack[Depth - 1] EXCEPT !.value = v]

\* C29 as stated: a constructor call evaluates to the freshly allocated
\* `this` when the value returned is not an object (undefined, null, a
\* boolean, a number or a string) and to the value returned when that is an
\* object; a call that is not a constructor call evaluates to the value
\* returned.
C29_ConstructorResult ==
  [][(Stepping /\ CallCompletes) =>
       IF TopFrame.isConstructor /\ ~IsObj(TopFrame.value)
         THEN Evaluated(TopFrame.funcThis_)
         ELSE Evaluated(TopFrame.value)]_vars

\* What remains of C29 when the value returned is not null.
ConstructorResultButNull ==
  [][(Stepping /\ CallCompletes /\ TopFrame.value # Null) =>
       IF TopFrame.isConstructor /\ ~IsObj(TopFrame.value)
         THEN Evaluated(TopFrame.funcThis_)
         ELSE Evaluated(TopFrame.value)]_vars

(***************************************************************************)
(* Switch statements.                                                      *)
(***************************************************************************)
\* The programs that are one switch statement over literals, and that
\* statement.
SwitchPrograms == {"switch", "switchdefault"}
SwitchNode == Parse(program).body[1]

\* The clauses whose test strictly equals the discriminant v, and the
\* first of them (0: none); the default clause (0: none).
Matching(cases, v) ==
  {i \in 1..Len(cases) :
     cases[i].test # <<>> /\ StrictEquals(cases[i].test[1].value, v)}
FirstMatch(cases, v) ==
  IF Matching(cases, v) = {} THEN 0
  ELSE CHOOSE i \in Matching(cases, v) : \A j \in Matching(cases, v) : i <= j
DefaultCase(cases) ==
  IF \A i \in 1..Len(cases) : cases[i].test # <<>> THEN 0
  ELSE CHOOSE i \in 1..Len(cases) : cases[i].test = <<>>

\* The tests of clauses a..b, and the consequents of clauses a.., in source
\* order.
RECURSIVE TestsOf(_, _, _), ConsequentsFrom(_, _)
TestsOf(cases, a, b) ==
  IF a > b THEN <<>> ELSE cases[a].test \o TestsOf(cases, a + 1, b)
ConsequentsFrom(cases, a) ==
  IF a > Len(cases) THEN <<>> ELSE cases[a].consequent \o ConsequentsFrom(cases, a + 1)

\* What a switch statement is to enter, in order, if no consequent breaks:
\* the tests up to the first that matches (all of them if none does), then
\* the consequents from the clause that matched on, or from the default
\* clause on if no clause matched.
Plan(cases, v) ==
  LET m == FirstMatch(cases, v)
      from == IF m # 0 THEN m ELSE DefaultCase(cases)
  IN TestsOf(cases, 1, IF m # 0 THEN m ELSE Len(cases))
       \o (IF from = 0 THEN <<>> ELSE ConsequentsFrom(cases, from))

\* A plan ends with the first break in it.
RECURSIVE UpToBreak(_)
UpToBreak(plan) ==
  IF plan = <<>> THEN <<>>
  ELSE IF Head(plan).type = "BreakStatement" THEN <<Head(plan)>>
  ELSE <<Head(plan)>> \o UpToBreak(Tail(plan))

IsPrefix(s, t) == Len(s) <= Len(t) /\ s = SubSeq(t, 1, Len(s))

\* C30: the case tests are evaluated in source order, each at most once,
\* until one strictly equals the discriminant; the default clause is
\* bypassed during that search wherever it stands and is entered if and
\* only if no case matched; once a clause is entered, the consequents of it
\* and of every following clause run in source order until a break or the
\* end of the switch, and no further test is evaluated.
C30_SwitchOrder ==
  program \in SwitchPrograms =>
    LET plan == UpToBreak(Plan(SwitchNode.cases, SwitchNode.discriminant.value))
    IN /\ IsPrefix(history.switched, plan)
       /\ (Terminated(Interp) /\ error = "") => history.switched = plan

\* switch (4) { case 1: 'a'; default: 'd'; case 2: 'b'; } has ended: both
\* tests have failed, and the default clause and the clause after it have
\* run.
C30_Witness ==
  /\ program = "switchdefault" /\ Terminated(Interp) /\ error = ""
  /\ Len(history.switched) = 4
  /\ history.completed = <<Str("d"), Str("b")>>

(***************************************************************************)
(* Assignment to accessor properties.                                      *)
(***************************************************************************)
\* The top frame is a plain assignment `o.name = v` to a property of an
\* object whose right side has been evaluated: this step writes.
WritesProperty ==
  /\ Depth > 0 /\ TopFrame.node.type = "AssignmentExpression" /\ TopFrame.node.end
  /\ TopFrame.node.operator = "=" /\ TopFrame.node.left.type = "MemberExpression"
  /\ TopFrame.doneRight_ /\ ~TopFrame.doneSetter_
  /\ IsRef(TopFrame.leftReference_) /\ IsObj(RefBase(TopFrame.leftReference_))
Receiver == RefBase(TopFrame.leftReference_)
Written == RefName(TopFrame.leftReference_)
\* The object of the receiver's chain that holds the property, or the
\* receiver when none does.
Definer ==
  IF Owner(objs, Receiver.v, Written) = 0 THEN Receiver.v
  ELSE Owner(objs, Receiver.v, Written)
SetterFound ==
  Written \in DOMAIN objs[Definer].setter /\ Truthy(objs[Definer].setter[Written])
GetterOnly ==
  /\ ~SetterFound
  /\ Written \in DOMAIN objs[Definer].getter /\ Truthy(objs[Definer].getter[Written])

\* The step has pushed the call of the setter: the receiver is `this`, the
\* assigned value the only argument, and no object has changed.
SetterCalled ==
  /\ objs' = objs
  /\ Len(stateStack') = Depth + 1
  /\ LET call == stateStack'[Depth + 1]
     IN /\ IsCall(call) /\ ~call.doneExec_
        /\ call.func_ = objs[Definer].setter[Written]
        /\ call.funcThis_ = Receiver
        /\ call.arguments_ = <<TopFrame.value>>
  /\ stateStack'[Depth].doneSetter_
  /\ stateStack'[Depth].setterValue_ = TopFrame.value
\* No object that existed has changed.
NothingWritten == \A i \in 1..Len(objs) : objs'[i] = objs[i]
CannotSet(name) ==
  "TypeError: Cannot set property '" \o name \o "' which only has a getter"
\* The write is dropped: silently in sloppy mode, with a TypeError in
\* strict mode.
GetterKept ==
  /\ NothingWritten
  /\ IF scopes[TopFrame.scope].strict
       THEN \/ error' = CannotSet(Written)
            \/ \E i \in 1..Len(stateStack') :
                  /\ IsTry(stateStack'[i]) /\ stateStack'[i].cv # <<>>
                  /\ stateStack'[i].cv[1].type = THROW
       ELSE /\ error' = ""
            /\ CutTo(Depth - 1)
            /\ stateStack'[Depth - 1].value = TopFrame.value
\* The top frame is an assignment whose setter has returned.
SetterReturned ==
  /\ Depth > 0 /\ TopFrame.node.type = "AssignmentExpression" /\ TopFrame.node.end
  /\ TopFrame.doneRight_ /\ TopFrame.doneSetter_

SetterAssignmentButArrays ==
  [][Stepping =>
       /\ (WritesProperty /\ SetterFound /\ objs[Receiver.v].class # "Array") => SetterCalled
       /\ (WritesProperty /\ GetterOnly /\ objs[Receiver.v].class # "Array") => GetterKept
       /\ SetterReturned =>
            /\ CutTo(Depth - 1)
            /\ stateStack'[Depth - 1].value = TopFrame.setterValue_
            /\ objs' = objs]_vars

\* The program `... var r = (o.k = 5); p.k = 6; o.g = 2;` has ended: the
\* setter k of the prototype p has run twice, last with p as `this` and 6
\* as argument, r is 5 although the setter returns 9, and o has no slot.
SetterRanTwice ==
  /\ program = "setter" /\ op = "run" /\ error = "" /\ Terminated(Interp)
  /\ LET g == objs[GLOBAL_OBJECT].properties
     IN /\ g["n"] = Num(2) /\ g["t"] = g["p"] /\ g["a"] = Num(6) /\ g["r"] = Num(5)
        /\ DOMAIN objs[g["o"].v].properties = {}

(***************************************************************************)
(* Conversion of object graphs.                                            *)
(***************************************************************************)
\* The host has just converted interpreter.value, an object graph.
GraphConverted == op = "pseudoToNative(graph)"

\* The property names of the graphs and the longest path followed.
GraphKeys == {"0", "1", "a", "b"}
MaxPath == 3
Paths == UNION {[1..n -> GraphKeys] : n \in 0..MaxPath}
Nowhere == [t |-> "nowhere"]

\* The interpreted value at the end of a path of property names from v, and
\* the host value at the end of the same path in the conversion n (a path
\* stops at a reference to a host object produced earlier).
RECURSIVE PseudoAt(_, _), NativeAt(_, _)
PseudoAt(v, path) ==
  IF path = <<>> THEN v
  ELSE IF IsObj(v) /\ Head(path) \in DOMAIN objs[v.v].properties
    THEN PseudoAt(objs[v.v].properties[Head(path)], Tail(path))
  ELSE Nowhere
NativeAt(n, path) ==
  IF path = <<>> THEN n
  ELSE IF n.t = "Array" /\ legalArrayIndex(Head(path)) \in DOMAIN n.elems
    THEN NativeAt(n.elems[legalArrayIndex(Head(path))], Tail(path))
  ELSE IF n.t = "Object" /\ Head(path) \in DOMAIN n.props
    THEN NativeAt(n.props[Head(path)], Tail(path))
  ELSE Nowhere

\* The conversion has produced a new host object at the end of the path; it
\* refers there to the host object produced at an earlier point of the path.
Fresh(path) == NativeAt(native, path).t \in {"Array", "Object"}
Reused(path) == NativeAt(native, path).t = "cycle"
\* The beginning of the path where that host object was produced.
Origin(path) == SubSeq(path, 1, NativeAt(native, path).v - 1)
Ancestors(path) == {SubSeq(path, 1, n) : n \in 0..(Len(path) - 1)}

\* The conversion has returned a host value that follows the graph: a
\* primitive is itself, and a host object stands for an interpreted object.
Followed ==
  /\ error = "" /\ native # NoNative
  /\ \A p \in Paths :
       /\ (Fresh(p) \/ Reused(p)) => IsObj(PseudoAt(value, p))
       /\ NativeAt(native, p).t \notin {"Array", "Object", "cycle", "nowhere"}
            => NativeAt(native, p) = PseudoAt(value, p)

\* C33 as stated: pseudoToNative returns on every graph, and an interpreted
\* object that is visited again is given the host object already produced
\* for it, be it through a cycle or from a second place of the graph: no
\* two places get host objects of their own for the same interpreted
\* object.
C33_RevisitsReuse ==
  GraphConverted =>
    /\ Followed
    /\ \A p, q \in Paths :
         (p # q /\ Fresh(p) /\ Fresh(q)) => PseudoAt(value, p) # PseudoAt(value, q)

\* C33: pseudoToNative returns on every graph, cyclic ones included; an
\* interpreted object that is reached again while it is being converted
\* (through a cycle) is given the host object already produced for it; an
\* object that is reached again after its conversion has ended is converted
\* again, into a host object of its own.
C33_CyclesReuse ==
  GraphConverted =>
    /\ Followed
    /\ \A p \in Paths :
         /\ Reused(p) =>
              /\ Origin(p) \in Ancestors(p) /\ Fresh(Origin(p))
              /\ PseudoAt(value, Origin(p)) = PseudoAt(value, p)
         /\ Fresh(p) => \A a \in Ancestors(p) : PseudoAt(value, a) # PseudoAt(value, p)

\* The graph of `var s = []; s[0] = s; var o = {a: s, b: s}; s[1] = o;` has
\* been converted from o: the array s has two host arrays, each of which
\* holds itself and the host object of o.
C33_Witness ==
  /\ GraphConverted /\ entry = "terminated" /\ error = ""
  /\ value = objs[GLOBAL_OBJECT].properties["o"]
  /\ Fresh(<<>>) /\ Fresh(<<"a">>) /\ Fresh(<<"b">>)
  /\ PseudoAt(value, <<"a">>) = PseudoAt(value, <<"b">>)
  /\ Reused(<<"a", "0">>) /\ Origin(<<"a", "0">>) = <<"a">>
  /\ Reused(<<"b", "1">>) /\ Origin(<<"b", "1">>) = <<>>

(***************************************************************************)
(* Hoisting of declarations.                                               *)
(***************************************************************************)
\* The declarations under `body` are bound in the object `o`: a var to
\* undefined, a function declaration to a function object made from it
\* whose parent scope is `scope`.
Bound(o, d, scope) ==
  /\ d.name \in DOMAIN o.properties
  /\ IF d.kind = "var" THEN o.properties[d.name] = Undef
     ELSE /\ IsObj(o.properties[d.name])
          /\ objs[o.properties[d.name].v].class = "Function"
          /\ objs[o.properties[d.name].v].node = d.node
          /\ objs[o.properties[d.name].v].parentScope = scope
AllBound(body, scope) ==
  \A i \in 1..Len(Decls(body)) : Bound(objs[scopes[scope].object], Decls(body)[i], scope)
DeclaredIn(body) == {Decls(body)[i].name : i \in 1..Len(Decls(body))}

\* No statement of the program has run yet.
Constructed == op = "new"
\* The last step has entered the body of an interpreted function: the frame
\* of the call is below the frame of the body, which is new.
InBody ==
  /\ op = "step" /\ error = "" /\ Depth > 1
  /\ IsCall(stateStack[Depth - 1]) /\ stateStack[Depth - 1].doneExec_
  /\ IsObj(stateStack[Depth - 1].func_)
  /\ objs[stateStack[Depth - 1].func_.v].node # <<>>
  /\ TopFrame.node = objs[stateStack[Depth - 1].func_.v].node[1].block
  /\ TopFrame.id = stateCounter /\ ~TopFrame.done
  /\ TopFrame.n_ = 0
Called == objs[stateStack[Depth - 1].func_.v].node[1]

\* C32 as stated: before the first statement of a program body or of a
\* function body runs, every var declared in the body outside nested
\* functions is bound to undefined in the scope of the body and every
\* function declaration to a function object; nothing declared in nested
\* functions and no function expression is bound there.
C32_Hoisting ==
  /\ Constructed =>
       /\ AllBound(Parse(program), GLOBAL_SCOPE)
       /\ GlobalKeys = InitialKeys \cup DeclaredIn(Parse(program))
  /\ InBody =>
       /\ AllBound(TopFrame.node, TopFrame.scope)
       /\ DOMAIN objs[scopes[TopFrame.scope].object].properties
            = DeclaredIn(TopFrame.node) \cup {"arguments", "this"}
                \cup {Called.params[i] : i \in 1..Len(Called.params)}
                \cup (IF Called.id = "" THEN {} ELSE {Called.id})

\* The same for bodies that do not declare a name twice.
Clashing(body) ==
  \E i, j \in 1..Len(Decls(body)) : i # j /\ Decls(body)[i].name = Decls(body)[j].name
HoistingButClashes ==
  /\ (Constructed /\ ~Clashing(Parse(program))) =>
       /\ AllBound(Parse(program), GLOBAL_SCOPE)
       /\ GlobalKeys = InitialKeys \cup DeclaredIn(Parse(program))
  /\ (InBody /\ ~Clashing(TopFrame.node)) =>
       /\ AllBound(TopFrame.node, TopFrame.scope)
       /\ DOMAIN objs[scopes[TopFrame.scope].object].properties
            = DeclaredIn(TopFrame.node) \cup {"arguments", "this"}
                \cup {Called.params[i] : i \in 1..Len(Called.params)}
                \cup (IF Called.id = "" THEN {} ELSE {Called.id})

\* The body of f has been entered by the call that precedes its
\* declaration: w is undefined and g a function there.
HoistedCall ==
  /\ program = "hoist" /\ InBody /\ Called.id = "f"
  /\ DeclaredIn(TopFrame.node) = {"w", "g"}
  /\ history.completed = <<>>

(***************************************************************************)
(* The step-abort sentinel.                                                *)
(***************************************************************************)
\* What the step function of the top frame does in the coming step.
Outcome == this_stepFunctions_(Interp)
\* One step function of user code runs in the coming step() and leaves no
\* accessor call behind.
StepsOnce ==
  /\ Stepping /\ Depth > 0 /\ TopFrame.node.end /\ ~Terminated(Interp)
  /\ ~Outcome.I.getterStep_ /\ ~Outcome.I.setterStep_
\* The nearest TryStatement frame from the top of the stack, 0 if none.
NearestTry ==
  IF \E i \in 1..Depth : IsTry(stateStack[i])
    THEN CHOOSE i \in 1..Depth : IsTry(stateStack[i]) /\ \A j \in (i + 1)..Depth : ~IsTry(stateStack[j])
    ELSE 0
\* step() has returned true with that try frame on top, holding a THROW
\* completion, and the frames below untouched.
CaughtByTry ==
  /\ error' = "" /\ result'
  /\ CutTo(NearestTry)
  /\ stateStack'[NearestTry].cv # <<>>
  /\ stateStack'[NearestTry].cv[1].type = THROW
  /\ [stateStack'[NearestTry] EXCEPT !.cv = <<>>]
       = [stateStack[NearestTry] EXCEPT !.cv = <<>>]
\* The exception of the step function comes out of step(), and out of a
\* run() made in the same state.
Propagated ==
  /\ error' = Outcome.msg /\ error' # ""
  /\ this_run(Interp, 1).msg = Outcome.msg

\* C34 as stated: step() swallows the sentinel and nothing else.  When the
\* step function calls throwException (as that of a throw statement does)
\* under a TryStatement frame, step() returns true with that frame on top,
\* holding the THROW completion; any other exception of a step function
\* reaches the host.
C34_SentinelSwallowed ==
  [][StepsOnce =>
       /\ ((Outcome.thrown = "step" \/ ThrowPending) /\ NearestTry > 0) => CaughtByTry
       /\ Outcome.thrown = "step" => (NearestTry > 0 /\ error' = "" /\ result')
       /\ Outcome.thrown = "host" => Propagated]_vars

\* The same for the calls of throwException that are not made by a throw
\* statement.
SentinelSwallowedButThrow ==
  [][StepsOnce =>
       /\ (Outcome.thrown = "step" /\ NearestTry > 0) => CaughtByTry
       /\ Outcome.thrown = "step" => (NearestTry > 0 /\ error' = "" /\ result')
       /\ Outcome.thrown = "host" => Propagated]_vars

(***************************************************************************)
(* Resume callbacks invoked again.                                         *)
(***************************************************************************)
\* The host invokes a callback it has invoked before.
StaleCallback == op' = "callback again"
\* The interpreter is paused on an async call whose callback has not been
\* invoked yet.
AwaitsLater == paused_ /\ callbacks # <<>> /\ Depth > 0 /\ TopFrame.id = Head(callbacks)
\* The frame of the call that has been resumed has left the stack.
FramePopped(id) == FrameIndex(stateStack, id) = 0

\* C35 as stated: a callback invoked once more, after its call has been
\* resumed and its frame popped, leaves an interpreter that is paused on a
\* later async call paused, and leaves that call's frame as it was.
C35_StaleCallbackIgnored ==
  [][(StaleCallback /\ AwaitsLater) =>
       /\ paused_'
       /\ stateStack' = stateStack
       /\ callbacks' = callbacks]_vars

\* What does hold: the stale callback writes nothing into the frames of the
\* later call.
StaleCallbackKeepsFrames ==
  [][(StaleCallback /\ AwaitsLater /\ \A k \in 1..Len(history.fired) : FramePopped(history.fired[k])) =>
       /\ stateStack' = stateStack
       /\ callbacks' = callbacks
       /\ ~paused_']_vars

\* The later call af(1) has completed with what its frame held, the value of
\* its last argument, its own callback never having been invoked.
LaterCallLost ==
  /\ program \in StalePrograms
  /\ Terminated(Interp) /\ error = ""
  /\ callbacks # <<>>
  /\ "b" \in DOMAIN objs[GLOBAL_OBJECT].properties
  /\ objs[GLOBAL_OBJECT].properties["b"] = Num(1)
  /\ objs[GLOBAL_OBJECT].properties["a"] = Str("hi")

(***************************************************************************)
(* Async functions that call back before they return.                      *)
(***************************************************************************)
\* The frame on top is a call whose function is an asynchronous host
\* function.
AsyncCall(frame) ==
  /\ frame.node.type = "CallExpression"
  /\ IsObj(frame.func_)
  /\ objs[frame.func_.v].asyncFunc # ""
\* The step executes such a call, and the host function returns without
\* keeping the callback: it has invoked it.
CalledBackInside ==
  /\ Stepping /\ Depth > 0 /\ TopFrame.node.end /\ error' = ""
  /\ ~TopFrame.doneExec_
  /\ Len(stateStack') = Depth /\ stateStack'[Depth].id = TopFrame.id
  /\ stateStack'[Depth].doneExec_
  /\ objs' = objs /\ AsyncCall(stateStack'[Depth])
  /\ callbacks' = callbacks
\* The step is made with the executed call on top.
CallExecuted ==
  /\ Stepping /\ Depth > 1 /\ TopFrame.node.end
  /\ AsyncCall(TopFrame) /\ TopFrame.doneExec_
\* The programs whose only async call calls back before it returns.
CallsBackInside == {"searchstrict"}

\* C37: when an async function invokes its callback before it returns, the
\* interpreter is not paused after the step and the call's frame holds the
\* deposited value; the following step pops the frame and hands that value
\* to the parent, as it does after a callback that fires later; and run()
\* does not stop at the call: it returns false, with the program finished or
\* failed, and the host holds no callback.
C37_SynchronousCallback ==
  [][/\ CalledBackInside =>
          /\ ~paused_'
          /\ stateStack'[Depth].value = NativeSearch("ab", NewRegExp(Str("b")))
     /\ CallExecuted =>
          /\ Len(stateStack') = Depth - 1
          /\ stateStack'[Depth - 1].value = TopFrame.value
          /\ error' = ""
     /\ (op' = "run" /\ program \in CallsBackInside) =>
          /\ ~result' /\ ~paused_' /\ callbacks' = <<>>
          /\ error' = "" => Terminated([stateStack |-> stateStack'])]_vars

\* run() has gone through 'ab'.search('b') in one call: the program has
\* ended with the index found as its value.
C37_Witness ==
  /\ program \in CallsBackInside /\ REGEXP_MODE = Num(1)
  /\ op = "run" /\ entry = "running" /\ ~result /\ ~paused_
  /\ Terminated(Interp) /\ error = ""
  /\ value = Num(1)

(***************************************************************************)
(* Rejected writes.                                                        *)
(***************************************************************************)
\* The assignment on top writes a key that its receiver, on which
\* preventExtensions has been set, does not have: setProperty rejects it.
RejectedWrite ==
  /\ Stepping /\ WritesProperty
  /\ objs[Receiver.v].preventExtensions
  /\ Written \notin OwnKeys(Receiver.v)
\* The receiver is of class Array and the key is an array index.
IndexOfArray == objs[Receiver.v].class = "Array" /\ legalArrayIndex(Written) # -1

\* C38 as stated: a write that setProperty rejects leaves the receiver as it
\* was: its keys, its values (the length of an array among them) and its
\* attributes.
C38_RejectedWriteNoEffect ==
  [][RejectedWrite => objs'[Receiver.v] = objs[Receiver.v]]_vars

\* The same for the writes that are not writes of an index to an array.
RejectedWriteButIndex ==
  [][(RejectedWrite /\ ~IndexOfArray) => objs'[Receiver.v] = objs[Receiver.v]]_vars

\* The rejected write a[6] = 1 has made the length of the non-extensible
\* array 7, with no key 6.
LengthLifted ==
  \E o \in 1..Len(objs) :
    /\ objs[o].class = "Array" /\ objs[o].preventExtensions
    /\ "6" \notin OwnKeys(o)
    /\ objs[o].properties["length"] = Num(7)

(***************************************************************************)
(* continue and the phases of a loop.                                      *)
(***************************************************************************)
LoopTypes == {"ForStatement", "WhileStatement", "DoWhileStatement", "ForInStatement"}
\* The programs that continue a loop of each kind.
ContinuePrograms == {"for", "while", "loop", "forincontinue"}
\* The step runs a continue statement.
ContinuePending ==
  /\ Stepping /\ Depth > 1 /\ TopFrame.node.end
  /\ TopFrame.node.type = "ContinueStatement"
ContinueLabel == IF TopFrame.node.label = <<>> THEN "" ELSE TopFrame.node.label[1]
Targeted(frame) ==
  IF ContinueLabel # "" THEN InLabels(frame.labels, ContinueLabel) ELSE frame.isLoop
\* The nearest frame the continue targets, 0 if none.
ContinueTarget ==
  IF \E i \in 1..(Depth - 1) : Targeted(stateStack[i])
    THEN CHOOSE i \in 1..(Depth - 1) :
           Targeted(stateStack[i]) /\ \A j \in (i + 1)..(Depth - 1) : ~Targeted(stateStack[j])
    ELSE 0
\* The target is a loop, and neither a try statement nor a call lies
\* between it and the continue statement.
TargetsLoop ==
  /\ ContinueTarget > 0
  /\ stateStack[ContinueTarget].node.type \in LoopTypes
  /\ \A j \in (ContinueTarget + 1)..Depth : ~IsTry(stateStack[j]) /\ ~IsCall(stateStack[j])
\* The interpreter with the loop's frame on top, as the continue leaves it.
AtLoop == [Interp EXCEPT !.stateStack = SubSeq(stateStack, 1, ContinueTarget)]
\* The child the step function pushes, <<>> if none.
Pushed(r) == IF r.frame = <<>> THEN <<>> ELSE <<r.frame[1].node>>
\* What the loop does in its next two steps, r being the first of them: a
\* for loop evaluates its update and then its test, while and do-while loops
\* their test, a for-in loop produces a name it has not produced, or ends.
NextPhase(loop, r) ==
  /\ r.thrown = "none"
  /\ CASE loop.node.type = "ForStatement" ->
            /\ Pushed(r) = loop.node.update
            /\ Pushed(this_stepFunctions_(r.I)) = loop.node.test
       [] loop.node.type \in {"WhileStatement", "DoWhileStatement"} ->
            Pushed(r) = <<loop.node.test>>
       [] loop.node.type = "ForInStatement" ->
            \/ Len(r.I.stateStack) = ContinueTarget - 1
            \/ /\ Len(r.I.enumerated) = Len(history.enumerated) + 1
               /\ \A i \in 1..Len(history.enumerated) :
                    history.enumerated[i].loop = loop.id
                      => history.enumerated[i].name # r.I.enumerated[Len(r.I.enumerated)].name
               /\ Pushed(r) = <<loop.node.block>>

\* The continue leaves the frame of the loop on top, as it was, and the
\* loop goes on with its next phase.
ContinueResumes ==
  [][(ContinuePending /\ TargetsLoop) =>
       /\ error' = ""
       /\ CutTo(ContinueTarget)
       /\ stateStack'[ContinueTarget] = stateStack[ContinueTarget]
       /\ NextPhase(stateStack[ContinueTarget], this_stepFunctions_(AtLoop))]_vars

\* C39 as stated: in for, while, do-while and for-in loops a continue leaves
\* the frame of the loop it targets on the stack and the loop resumes at its
\* next phase; the programs that continue such a loop raise no error in the
\* host and end with the loop left after its last iteration.
C39_ContinueResumes ==
  /\ ContinueResumes
  /\ [](program \in ContinuePrograms => error = "")

\* The same without the while loop.
ContinueResumesButWhile ==
  /\ ContinueResumes
  /\ [](program \in ContinuePrograms \ {"while"} => error = "")

\* The for loop has ended: two iterations, each cut short by continue.
ForContinued ==
  /\ program = "for" /\ Terminated(Interp) /\ error = ""
  /\ objs[GLOBAL_OBJECT].properties["n"] = Num(2)
  /\ objs[GLOBAL_OBJECT].properties["i"] = Num(2)
\* step() has thrown on the frame of the while statement.
WhileFails ==
  /\ program = "while" /\ op = "step"
  /\ Depth > 0 /\ TopFrame.node.type = "WhileStatement"
  /\ error = "TypeError: this.stepFunctions_[type] is not a function"

(***************************************************************************)
(* Progress and termination.                                               *)
(***************************************************************************)
\* A call of step() with this budget would change nothing: step() was the
\* last call, and it would return the same in the same state.
SameAfter(r) ==
  /\ Is(r.I) /\ result = r.result /\ error = r.msg
  /\ entry = Condition(Interp) /\ native = NoNative /\ given = NoNative
StepIdle ==
  op = "step" /\ \A budget \in 1..MaxMicroSteps : SameAfter(this_step(Interp, budget))
\* The host goes on calling step(): whatever else it does, a call of step()
\* that would change the state is not put off for ever.  This is the weak
\* fairness of Step, WF_vars(Step), with the enabling condition of a
\* state-changing Step written out as ~StepIdle; Step is the only action
\* that sets op to "step".
StepFairness == []<>StepIdle \/ []<><<op' = "step">>_vars
LiveSpec == Spec /\ StepFairness

\* The programs with a loop, and those that call asynchronous functions
\* (the host's af, String.prototype.search, RegExp.prototype.exec); no
\* program is recursive.
LoopPrograms ==
  {"forin", "forinshadow", "forinarray", "loop", "for", "forincontinue", "while"}
AsyncPrograms == {"async", "stale", "search", "searchstrict", "exec", "regexp"}
Straight == Programs \ (LoopPrograms \cup AsyncPrograms)
\* step() on an interpreter that is neither paused nor terminated.
StepsOn == Stepping /\ ~Terminated(Interp)
\* A frame has been pushed or popped, or the top frame has changed.
Progress == stateStack' # stateStack
\* The Program frame is done and step() has returned false.
Finished == Terminated(Interp) /\ op = "step" /\ ~result

\* C40 as stated: every step() on an interpreter that is neither paused nor
\* terminated makes progress, and a program without loops, recursion and
\* async calls reaches, under repeated calls of step(), the state where the
\* Program frame is done and step() returns false.
C40_StepsTerminate ==
  /\ [][StepsOn => Progress]_vars
  /\ (program \in Straight) ~> Finished

\* The programs in which a step function raises an error of the host.
HostFatal == {"throw", "catch"}
\* The same for the steps that raise no error in the host, and the
\* programs in which none does, as long as the host leaves the properties
\* of the global object alone.
StepsTerminateButFatal ==
  /\ [][(StepsOn /\ error' = "") => Progress]_vars
  /\ (program \in Straight \ HostFatal) ~> (Finished \/ hostCalls > 0)

\* step() has thrown on the throw statement and thrown again on the next
\* call, the stack being the same.
StuckOnThrow ==
  /\ program \in HostFatal /\ op = "step" /\ entry = "running"
  /\ error # "" /\ ThrowPending
  /\ suspended = NoInterp

====
